---- MODULE Spec2Model ----
(***************************************************************************)
(* A model of the execution-and-grading engine of the exam-practice app:   *)
(* compare_dataframes and execute_pandas of execution.py.                 *)
(*                                                                         *)
(* Text that the code searches (the message of pandas' AssertionError) is  *)
(* a sequence of one-character strings, so that lower() and the `in` test  *)
(* are computed character by character.  Numbers are exact decimals held   *)
(* as integers in units of 1e-8 (the absolute tolerance of the comparison):*)
(* 1.0 is ATOL_INV units.                                                  *)
(***************************************************************************)
EXTENDS Integers, Sequences, FiniteSets, TLC

VARIABLES
    pc,            \* "ready" before the modelled call, "done" after it, "hung"
                   \* when the call never returns
    user_df,       \* compare_dataframes: the submitted value (any type)
    expected_df,   \* compare_dataframes: the expected DataFrame
    verdict,       \* compare_dataframes: the returned (is_correct, feedback)
    code,          \* execute_pandas: the submitted program, a statement list
    input_tables,  \* execute_pandas: the caller's dict, name -> object id
    heap,          \* the Python objects, by id (the position in the sequence)
    can_alarm,     \* signal.signal(SIGALRM, ...) works: Unix, main thread
    sigalrm,       \* the process's SIGALRM handler and pending alarm
    scope,         \* execute_pandas: how exec ended and the namespace it left
    outcome,       \* execute_pandas: the returned (result, error) pair, or
                   \* the exception that left the call
    calls,         \* the caller's record of the calls that have returned: the
                   \* code of each and what it returned
    conn,          \* execute_sql: the sqlite3 connection of the call, the
                   \* local variable conn and the tables of its database
    response,      \* generate_problem: the skills selected and the solutions
                   \* of the parsed API response
    generated,     \* generate_problem: how the call ended and what it ran
    problem,       \* the Problem at hand: returned by generate_problem,
                   \* serialized by to_json, current in the session
    json_dict,     \* Problem.to_json: the dictionary returned
    imported,      \* Problem.from_json: the Problem returned
    verification,  \* verify_problem_solutions: the dictionary returned
    session,       \* st.session_state of the page
    language,      \* the language selected in the app
    uploaded_file, \* the file in the uploader of the page, if any
    selection,     \* select_skills_for_difficulty: the difficulty and the
                   \* selected_topics of the call, and the skills returned
    cache,         \* the lru_cache of _cached_generate_problem
    requests       \* the API requests made so far

\* the variables of generate_problem, Problem and the app
AppVars ==
    <<response, generated, problem, json_dict, imported, verification,
      session, language>>

\* the variables of the page's sidebar, of skill selection and of the cache
PageVars ==
    <<uploaded_file, selection, cache, requests>>

vars ==
    <<pc, user_df, expected_df, verdict, code, input_tables, heap, can_alarm,
      sigalrm, scope, outcome, calls, conn, AppVars, PageVars>>

\* the variables a call of compare_dataframes leaves alone
NonCompareVars ==
    <<code, input_tables, heap, can_alarm, sigalrm, scope, outcome, calls, conn,
      AppVars, PageVars>>

\* the variables a call of execute_pandas leaves alone
NonPandasVars ==
    <<user_df, expected_df, verdict, code, input_tables, can_alarm, calls, conn,
      AppVars, PageVars>>

\* the variables a call of execute_sql leaves alone
NonSqlVars ==
    <<user_df, expected_df, verdict, code, input_tables, can_alarm, calls,
      AppVars, PageVars>>

\* the variables the caller of the repeated calls leaves alone
NonCallerVars ==
    <<user_df, expected_df, verdict, input_tables, can_alarm, sigalrm, conn,
      AppVars, PageVars>>

-----------------------------------------------------------------------------
(* Bounds of the model. *)

\* most rows of a table
MaxRows == 2

\* most columns of a table
MaxCols == 2

\* most statements of a submitted program
MaxStmts == 2

\* most calls the caller keeps a record of
MaxCalls == 2

-----------------------------------------------------------------------------
(* Text: Python str as a sequence of characters. *)

UpperChars ==
    <<"A","B","C","D","E","F","G","H","I","J","K","L","M",
      "N","O","P","Q","R","S","T","U","V","W","X","Y","Z">>

LowerChars ==
    <<"a","b","c","d","e","f","g","h","i","j","k","l","m",
      "n","o","p","q","r","s","t","u","v","w","x","y","z">>

DigitChars == <<"0","1","2","3","4","5","6","7","8","9">>

\* the characters of names, in code-point order (what sorted() compares by)
CodeOrder == DigitChars \o UpperChars \o <<"_">> \o LowerChars

Ord(c) == CHOOSE i \in 1..Len(CodeOrder) : CodeOrder[i] = c

\* str.lower() on one character
LowerChar(c) ==
    IF \E i \in 1..Len(UpperChars) : UpperChars[i] = c
    THEN LowerChars[CHOOSE i \in 1..Len(UpperChars) : UpperChars[i] = c]
    ELSE c

\* str.lower()
Lower(s) == [i \in 1..Len(s) |-> LowerChar(s[i])]

\* w in s
Contains(s, w) ==
    \E i \in 1..(Len(s) - Len(w) + 1) : SubSeq(s, i, i + Len(w) - 1) = w

\* s < t for two str (lexicographic by code point)
StrLess(s, t) ==
    \E i \in 1..(Len(s) + 1) :
        /\ i <= Len(t)
        /\ \A j \in 1..(i - 1) : s[j] = t[j]
        /\ (i = Len(s) + 1 \/ Ord(s[i]) < Ord(t[i]))

\* the names in descending order
RECURSIVE SortedDescending(_)
SortedDescending(S) ==
    IF S = {} THEN <<>>
    ELSE LET m == CHOOSE x \in S : \A y \in S \ {x} : StrLess(y, x)
         IN  <<m>> \o SortedDescending(S \ {m})

\* sorted(S) for a set of str
RECURSIVE Sorted(_)
Sorted(S) ==
    IF S = {} THEN <<>>
    ELSE LET m == CHOOSE x \in S : \A y \in S \ {x} : StrLess(x, y)
         IN  <<m>> \o Sorted(S \ {m})

\* the elements of a sequence
Range(s) == {s[i] : i \in 1..Len(s)}

\* str(n) for a natural number
RECURSIVE NatStr(_)
NatStr(n) ==
    IF n < 10 THEN <<DigitChars[n + 1]>>
    ELSE NatStr(n \div 10) \o <<DigitChars[(n % 10) + 1]>>

\* the digits of f written in exactly `width` places
RECURSIVE Padded(_, _)
Padded(f, width) ==
    IF width = 0 THEN <<>>
    ELSE Padded(f \div 10, width - 1) \o <<DigitChars[(f % 10) + 1]>>

\* a fraction's digits without trailing zeros, keeping one digit
RECURSIVE StripZeros(_)
StripZeros(d) ==
    IF Len(d) > 1 /\ d[Len(d)] = "0" THEN StripZeros(SubSeq(d, 1, Len(d) - 1))
    ELSE d

\* str(x) of the float x = n / 10^places
DecimalStr(n, places, scale) ==
    NatStr(n \div scale) \o <<".">> \o StripZeros(Padded(n % scale, places))

\* ", ".join(parts)
RECURSIVE Join(_)
Join(parts) ==
    IF Len(parts) = 0 THEN <<>>
    ELSE IF Len(parts) = 1 THEN parts[1]
    ELSE parts[1] \o <<",", " ">> \o Join(Tail(parts))

\* pprint_thing of a sequence: [x, y, z]
Bracketed(parts) == <<"[">> \o Join(parts) \o <<"]">>

-----------------------------------------------------------------------------
(* Values: cells, columns, DataFrames and the other values a caller can    *)
(* hand to compare_dataframes.                                             *)

\* 1/rtol of assert_frame_equal(rtol=1e-5)
RTOL_INV == 100000

\* 1/atol of assert_frame_equal(atol=1e-8): the number of units in 1.0
ATOL_INV == 100000000

\* a numeric cell worth n units, the missing value, a text cell
Num(n) == [k |-> "num", n |-> n, s |-> <<>>]

NaN == [k |-> "nan", n |-> 0, s |-> <<>>]

Str(s) == [k |-> "str", n |-> 0, s |-> s]

\* pd.DataFrame: row labels, column names, one dtype and one cell list per column
DataFrame(index, columns, dtypes, data) ==
    [type |-> "DataFrame", index |-> index, columns |-> columns,
     dtypes |-> dtypes, data |-> data]

\* a value that is no DataFrame, of the Python type named
Other(typename) ==
    [type |-> typename, index |-> <<>>, columns |-> <<>>,
     dtypes |-> <<>>, data |-> <<>>]

\* isinstance(x, pd.DataFrame)
IsDataFrame(x) == x.type = "DataFrame"

\* the row count alone
ShapeRowsOnly(df) == <<Len(df.index)>>

\* df.shape
Shape(df) == <<Len(df.index), Len(df.columns)>>

\* reset_index(drop=True, inplace=True): the operand itself is relabelled
reset_index_inplace(df) ==
    [self |-> [df EXCEPT !.index = [i \in 1..Len(df.index) |-> i - 1]],
     ret  |-> [df EXCEPT !.index = [i \in 1..Len(df.index) |-> i - 1]]]

\* df.reset_index(drop=True): the frame the call leaves in place (self) and
\* the one it returns (ret), whose labels are 0..N-1
reset_index(df) ==
    [self |-> df,
     ret  |-> [df EXCEPT !.index = [i \in 1..Len(df.index) |-> i - 1]]]

-----------------------------------------------------------------------------
(* pandas.testing.assert_frame_equal(check_dtype=False, check_exact=False, *)
(* rtol=1e-5, atol=1e-8) and Series.equals, as compare_dataframes uses     *)
(* them.                                                                   *)

Abs(x) == IF x < 0 THEN -x ELSE x

Max(x, y) == IF x < y THEN y ELSE x

\* numpy.isclose instead: |a-b| <= atol + rtol * |b|
IsCloseNumpy(a, b) == Abs(a - b) - 1 <= Abs(b) \div RTOL_INV

\* math.isclose(a, b, rel_tol=rtol, abs_tol=atol) on exact decimals:
\* |a-b| <= max(rtol * max(|a|, |b|), atol), atol being one unit
IsClose(a, b) ==
    Abs(a - b) <= Max(Max(Abs(a), Abs(b)) \div RTOL_INV, 1)

\* a comparison by == alone, under which a missing value equals nothing
AlmostEqualNoNaN(a, b) ==
    IF a.k = "str" \/ b.k = "str" THEN a = b
    ELSE IF a.k = "nan" \/ b.k = "nan" THEN FALSE
    ELSE a.n = b.n \/ IsClose(a.n, b.n)

\* assert_almost_equal on two cells
AlmostEqual(a, b) ==
    IF a.k = "str" \/ b.k = "str" THEN a = b
    ELSE IF a.k = "nan" \/ b.k = "nan" THEN a.k = b.k
    ELSE a.n = b.n \/ IsClose(a.n, b.n)

\* array_equivalent on two cells: equal, or both missing
ExactlyEqual(a, b) == a = b

\* the rows in which two columns differ under assert_almost_equal
DiffRows(left, right, c) ==
    {i \in 1..Len(left.index) : ~AlmostEqual(left.data[c][i], right.data[c][i])}

\* user_clean[col].equals(expected_clean[col]): same dtype, same labels, and
\* cell for cell the same value
SeriesEquals(left, right, c) ==
    /\ left.dtypes[c] = right.dtypes[c]
    /\ left.index = right.index
    /\ \A i \in 1..Len(left.index) :
           ExactlyEqual(left.data[c][i], right.data[c][i])

\* pprint_thing of one cell of a column of the dtype given
CellStr(cell, dtype) ==
    IF cell.k = "str" THEN cell.s
    ELSE IF cell.k = "nan" THEN <<"n","a","n">>
    ELSE IF dtype = "int64" THEN NatStr(cell.n \div ATOL_INV)
    ELSE DecimalStr(cell.n, 8, ATOL_INV)

ColumnStr(df, c) ==
    Bracketed([i \in 1..Len(df.index) |-> CellStr(df.data[c][i], df.dtypes[c])])

IndexStr(df) == Bracketed([i \in 1..Len(df.index) |-> NatStr(df.index[i])])

\* np.round(diff * 100.0 / na, 5) as text
PercentStr(diff, na) ==
    DecimalStr((2 * diff * 100 * RTOL_INV + na) \div (2 * na), 5, RTOL_INV)

\* the obj of column c: DataFrame.iloc[:, <c-1>] (column name="<name>")
ColumnObj(df, c) ==
    <<"D","a","t","a","F","r","a","m","e",".","i","l","o","c","[",":",","," ">>
    \o NatStr(c - 1)
    \o <<"]"," ","(","c","o","l","u","m","n"," ","n","a","m","e","=","\"">>
    \o df.columns[c]
    \o <<"\"",")">>

\* str(e) of the AssertionError raise_assert_detail builds for column c
ValuesDifferentMsg(left, right, c) ==
    ColumnObj(left, c)
    \o <<" ","a","r","e"," ","d","i","f","f","e","r","e","n","t","\n","\n">>
    \o ColumnObj(left, c)
    \o <<" ","v","a","l","u","e","s"," ","a","r","e"," ",
         "d","i","f","f","e","r","e","n","t"," ","(">>
    \o PercentStr(Cardinality(DiffRows(left, right, c)), Len(left.index))
    \o <<" ","%",")","\n","[","i","n","d","e","x","]",":"," ">>
    \o IndexStr(left)
    \o <<"\n","[","l","e","f","t","]",":"," "," ">>
    \o ColumnStr(left, c)
    \o <<"\n","[","r","i","g","h","t","]",":"," ">>
    \o ColumnStr(right, c)

\* assert_frame_equal on two frames of one shape, one column sequence and one
\* index: the columns are compared left to right and the first that differs
\* raises; raised = FALSE when the call returns
assert_frame_equal(left, right) ==
    LET bad == {c \in 1..Len(left.columns) : DiffRows(left, right, c) # {}}
    IN  IF bad = {} THEN [raised |-> FALSE, msg |-> <<>>]
        ELSE LET c == CHOOSE x \in bad : \A y \in bad : x <= y
             IN  [raised |-> TRUE, msg |-> ValuesDifferentMsg(left, right, c)]

-----------------------------------------------------------------------------
(* compare_dataframes *)

\* the feedback texts, by their fixed leading words
Feedback(kind) ==
    [kind |-> kind, got |-> "", shapes |-> <<>>, columns |-> <<>>,
     parts |-> <<>>, error_msg |-> <<>>]

\* "Column mismatch:" and its parts, each present only when its set is not empty
ColumnMismatchParts(missing_cols, extra_cols) ==
    (IF missing_cols # {}
     THEN <<[label |-> "Missing columns", cols |-> Sorted(missing_cols)]>>
     ELSE <<>>)
    \o
    (IF extra_cols # {}
     THEN <<[label |-> "Extra columns", cols |-> Sorted(extra_cols)]>>
     ELSE <<>>)

\* the except branch: the feedback chosen from the text of the AssertionError
ClassifyAssertion(user_clean, expected_clean, error_msg) ==
    LET lowered == Lower(error_msg) IN
    IF Contains(lowered, <<"d","t","y","p","e">>)
    THEN [Feedback("Data type mismatch") EXCEPT !.error_msg = error_msg]
    ELSE IF \/ Contains(lowered, <<"v","a","l","u","e","s">>)
            \/ Contains(lowered, <<"d","i","f","f","e","r","e","n","t">>)
    THEN LET differing ==
                 {c \in 1..Len(user_clean.columns) :
                      ~SeriesEquals(user_clean, expected_clean, c)}
             differences ==
                 SelectSeq(user_clean.columns,
                           LAMBDA name : \E c \in differing : user_clean.columns[c] = name)
         IN  IF differences # <<>>
             THEN [Feedback("Values don't match in column(s)") EXCEPT
                       !.columns = differences]
             ELSE [Feedback("Values don't match") EXCEPT !.error_msg = error_msg]
    ELSE [Feedback("Output doesn't match expected result") EXCEPT
              !.error_msg = error_msg]

\* the value check: both frames with their index reset, then assert_frame_equal
ValueCheck(user_df_, expected_df_) ==
    LET user_clean == reset_index(user_df_).ret
        expected_clean == reset_index(expected_df_).ret
        res == assert_frame_equal(user_clean, expected_clean)
    IN  IF ~res.raised
        THEN [is_correct |-> TRUE, feedback |-> Feedback("Correct!")]
        ELSE [is_correct |-> FALSE,
              feedback |-> ClassifyAssertion(user_clean, expected_clean, res.msg)]

\* the column-name check, taken when the two name lists differ
ColumnCheck(user_df_, expected_df_) ==
    LET user_cols_set == Range(user_df_.columns)
        expected_cols_set == Range(expected_df_.columns)
    IN  IF user_cols_set = expected_cols_set
        THEN [is_correct |-> FALSE,
              feedback |-> [Feedback("Column order mismatch") EXCEPT
                  !.columns = <<user_df_.columns, expected_df_.columns>>]]
        ELSE [is_correct |-> FALSE,
              feedback |-> [Feedback("Column mismatch") EXCEPT
                  !.parts = ColumnMismatchParts(expected_cols_set \ user_cols_set,
                                                user_cols_set \ expected_cols_set)]]

\* the same checks with the column names compared before the shapes
compare_dataframes_columns_first(user_df_, expected_df_) ==
    IF ~IsDataFrame(user_df_)
    THEN [is_correct |-> FALSE,
          feedback |-> [Feedback("Expected a DataFrame, but got") EXCEPT
                            !.got = user_df_.type]]
    ELSE IF user_df_.columns # expected_df_.columns
    THEN ColumnCheck(user_df_, expected_df_)
    ELSE IF Shape(user_df_) # Shape(expected_df_)
    THEN [is_correct |-> FALSE,
          feedback |-> [Feedback("Shape mismatch") EXCEPT
                            !.shapes = <<Shape(user_df_), Shape(expected_df_)>>]]
    ELSE ValueCheck(user_df_, expected_df_)

\* compare_dataframes(user_df, expected_df) -> (is_correct, feedback)
compare_dataframes(user_df_, expected_df_) ==
    IF ~IsDataFrame(user_df_)
    THEN [is_correct |-> FALSE,
          feedback |-> [Feedback("Expected a DataFrame, but got") EXCEPT
                            !.got = user_df_.type]]
    ELSE IF Shape(user_df_) # Shape(expected_df_)
    THEN [is_correct |-> FALSE,
          feedback |-> [Feedback("Shape mismatch") EXCEPT
                            !.shapes = <<Shape(user_df_), Shape(expected_df_)>>]]
    ELSE IF user_df_.columns # expected_df_.columns
    THEN ColumnCheck(user_df_, expected_df_)
    ELSE ValueCheck(user_df_, expected_df_)

\* what the call leaves in its two operands: reset_index(drop=True) is the only
\* method it calls on them, and only when the value check is reached
OperandsAfter(user_df_, expected_df_) ==
    IF /\ IsDataFrame(user_df_)
       /\ Shape(user_df_) = Shape(expected_df_)
       /\ user_df_.columns = expected_df_.columns
    THEN <<reset_index(user_df_).self, reset_index(expected_df_).self>>
    ELSE <<user_df_, expected_df_>>

-----------------------------------------------------------------------------
(* execute_pandas and time_limit.  A submitted program is a list of         *)
(* statements; objects live on a heap so that a copy and its original are   *)
(* two objects and two names can be bound to one.                           *)

\* EXECUTION_TIMEOUT, in seconds
EXECUTION_TIMEOUT == 5

None == 0

NoError == [kind |-> "None", detail |-> "", limit |-> 0]

ErrorMsg(kind, detail) == [kind |-> kind, detail |-> detail, limit |-> 0]

NoOutcome == [result |-> None, error |-> NoError, raised |-> "none"]

NoScope == [status |-> "none", exc |-> "none", ns |-> <<>>]

\* no Problem
NoProblem ==
    [input_tables |-> <<>>, question |-> "", expected_output |-> Other("NoneType"),
     topic |-> "", difficulty |-> "", pandas_solution |-> <<>>,
     sql_solution |-> <<>>, pandas_only |-> FALSE]

\* no file in the uploader
NoFile == [name |-> "", size |-> 0, content |-> [json |-> FALSE, dict |-> [text |-> ""]]]

\* the state of the variables of the sidebar, skill selection and the cache
\* where none of them is at work
PageIdle ==
    /\ uploaded_file = NoFile
    /\ selection = <<>>
    /\ cache = <<>>
    /\ requests = <<>>

\* the state of the variables that neither backend nor compare_dataframes
\* touches
AppIdle ==
    /\ response = <<>>
    /\ generated = <<>>
    /\ problem = NoProblem
    /\ json_dict = <<>>
    /\ imported = NoProblem
    /\ verification = <<>>
    /\ session = <<>>
    /\ language = ""
    /\ PageIdle

\* no handler of time_limit installed, no alarm pending
NoAlarm == [handler |-> "default", pending |-> 0]

\* execute_sql not entered: conn = None, no connection object, no database
\* loaded, no database left behind
NoConn == [bound |-> FALSE, state |-> "none", loaded |-> <<>>, db |-> <<>>]

\* a module object: the attributes code has set on it, by name, and the ids
\* of the objects they are bound to
Module(names, ids) ==
    [type |-> "module", index |-> <<>>, columns |-> names, dtypes |-> <<>>,
     data |-> ids]

\* the ids of the module objects pd and builtins, which every call shares
PandasId == 3

BuiltinsId == 4

\* expressions: a name, an int literal, x['a'] (a Series), x.head(1)
Ref(x) == [e |-> "name", x |-> x]

IntLit == [e |-> "int", x |-> ""]

ColumnOf(x) == [e |-> "column", x |-> x]

HeadOf(x) == [e |-> "head", x |-> x]

\* x.leak
AttrOf(x) == [e |-> "attr", x |-> x]

\* x.iloc[::-1]: the rows in reverse order, each with its label
ReversedOf(x) == [e |-> "reversed", x |-> x]

\* x[x.columns[::-1]]: the columns in reverse order
SwappedOf(x) == [e |-> "swapped", x |-> x]

NoExpr == [e |-> "none", x |-> ""]

\* statements: target = expr; del target; raise <exception>; while True: pass;
\* target.drop(target.index, inplace=True); and text that does not compile
Assign(target, expr) == [op |-> "assign", target |-> target, expr |-> expr]

Del(target) == [op |-> "del", target |-> target, expr |-> NoExpr]

Raise(exc) == [op |-> "raise", target |-> exc, expr |-> NoExpr]

Loop == [op |-> "loop", target |-> "", expr |-> NoExpr]

DropInplace(target) == [op |-> "inplace", target |-> target, expr |-> NoExpr]

SyntaxErr == [op |-> "syntax", target |-> "", expr |-> NoExpr]

\* target.leak = x
SetAttr(target, x) == [op |-> "setattr", target |-> target, expr |-> Ref(x)]

\* df.head(1)
Head1(df) ==
    LET n == IF Len(df.index) = 0 THEN 0 ELSE 1
    IN  [df EXCEPT !.index = SubSeq(df.index, 1, n),
                   !.data = [c \in 1..Len(df.columns) |-> SubSeq(df.data[c], 1, n)]]

\* df.iloc[::-1]
Reversed(df) ==
    LET n == Len(df.index)
    IN  [df EXCEPT !.index = [i \in 1..n |-> df.index[n + 1 - i]],
                   !.data = [c \in 1..Len(df.columns) |->
                                [i \in 1..n |-> df.data[c][n + 1 - i]]]]

\* df[df.columns[::-1]]
Swapped(df) ==
    LET m == Len(df.columns)
    IN  [df EXCEPT !.columns = [c \in 1..m |-> df.columns[m + 1 - c]],
                   !.dtypes = [c \in 1..m |-> df.dtypes[m + 1 - c]],
                   !.data = [c \in 1..m |-> df.data[m + 1 - c]]]

\* df with 1 added to every number
Bumped(df) ==
    [df EXCEPT !.data =
        [c \in 1..Len(df.columns) |->
            [i \in 1..Len(df.index) |->
                IF df.data[c][i].k = "num"
                THEN [df.data[c][i] EXCEPT !.n = @ + ATOL_INV]
                ELSE df.data[c][i]]]]

\* df after df.drop(df.index, inplace=True): no rows
Emptied(df) ==
    [df EXCEPT !.index = <<>>, !.data = [c \in 1..Len(df.columns) |-> <<>>]]

\* the state of a running program: how it goes on, the exception raised, the
\* namespace (name -> id) and the heap
Running(ns, hp) == [status |-> "ok", exc |-> "none", ns |-> ns, heap |-> hp]

Raised(st, exc) == [st EXCEPT !.status = "raised", !.exc = exc]

\* name = <a new object>
BindNew(st, target, value) ==
    [st EXCEPT !.heap = Append(st.heap, value),
               !.ns = (target :> (Len(st.heap) + 1)) @@ st.ns]

\* one statement of the program
ExecStmt(st, stmt) ==
    LET x == stmt.expr.x
        bound(n) == n \in DOMAIN st.ns
        obj(n) == st.heap[st.ns[n]]
    IN  CASE stmt.op = "assign" /\ stmt.expr.e = "int" ->
                 BindNew(st, stmt.target, Other("int"))
          [] stmt.op = "assign" /\ stmt.expr.e = "name" ->
                 IF ~bound(x) THEN Raised(st, "NameError")
                 ELSE [st EXCEPT !.ns = (stmt.target :> st.ns[x]) @@ st.ns]
          [] stmt.op = "assign" /\ stmt.expr.e = "column" ->
                 IF ~bound(x) THEN Raised(st, "NameError")
                 ELSE IF ~IsDataFrame(obj(x)) THEN Raised(st, "TypeError")
                 ELSE BindNew(st, stmt.target, Other("Series"))
          [] stmt.op = "assign" /\ stmt.expr.e = "head" ->
                 IF ~bound(x) THEN Raised(st, "NameError")
                 ELSE IF ~IsDataFrame(obj(x)) THEN Raised(st, "AttributeError")
                 ELSE BindNew(st, stmt.target, Head1(obj(x)))
          [] stmt.op = "assign" /\ stmt.expr.e = "reversed" ->
                 IF ~bound(x) THEN Raised(st, "NameError")
                 ELSE IF ~IsDataFrame(obj(x)) THEN Raised(st, "AttributeError")
                 ELSE BindNew(st, stmt.target, Reversed(obj(x)))
          [] stmt.op = "assign" /\ stmt.expr.e = "swapped" ->
                 IF ~bound(x) THEN Raised(st, "NameError")
                 ELSE IF ~IsDataFrame(obj(x)) THEN Raised(st, "AttributeError")
                 ELSE BindNew(st, stmt.target, Swapped(obj(x)))
          [] stmt.op = "assign" /\ stmt.expr.e = "attr" ->
                 IF ~bound(x) THEN Raised(st, "NameError")
                 ELSE IF obj(x).type # "module" \/ obj(x).columns = <<>>
                 THEN Raised(st, "AttributeError")
                 ELSE [st EXCEPT !.ns = (stmt.target :> obj(x).data[1]) @@ st.ns]
          [] stmt.op = "setattr" ->
                 IF ~bound(x) \/ ~bound(stmt.target) THEN Raised(st, "NameError")
                 ELSE IF obj(stmt.target).type # "module"
                 THEN Raised(st, "AttributeError")
                 ELSE [st EXCEPT !.heap[st.ns[stmt.target]] =
                                     Module(<<"leak">>, <<st.ns[x]>>)]
          [] stmt.op = "del" ->
                 IF ~bound(stmt.target) THEN Raised(st, "NameError")
                 ELSE [st EXCEPT !.ns =
                           [n \in (DOMAIN st.ns) \ {stmt.target} |-> st.ns[n]]]
          [] stmt.op = "raise" -> Raised(st, stmt.target)
          [] stmt.op = "loop" -> [st EXCEPT !.status = "loop"]
          [] stmt.op = "inplace" ->
                 IF ~bound(stmt.target) THEN Raised(st, "NameError")
                 ELSE IF ~IsDataFrame(obj(stmt.target))
                 THEN Raised(st, "AttributeError")
                 ELSE [st EXCEPT !.heap[st.ns[stmt.target]] =
                                     Emptied(obj(stmt.target))]

\* the statements in turn, until one raises or loops for ever
RECURSIVE ExecStmts(_, _)
ExecStmts(st, stmts) ==
    IF stmts = <<>> \/ st.status # "ok" THEN st
    ELSE ExecStmts(ExecStmt(st, Head(stmts)), Tail(stmts))

\* exec(code, namespace): text that does not compile raises before any of it
\* runs; with the alarm armed, a loop without end is cut by the handler's
\* TimeoutError
Exec(program, ns, hp, armed) ==
    IF \E i \in 1..Len(program) : program[i].op = "syntax"
    THEN Raised(Running(ns, hp), "SyntaxError")
    ELSE LET st == ExecStmts(Running(ns, hp), program)
         IN  IF st.status = "loop" /\ armed
             THEN [st EXCEPT !.status = "timeout", !.exc = "TimeoutError"]
             ELSE st

\* the order of input_tables.items(): the caller's insertion order
TableOrder == <<"employees", "result">>

\* the namespace execute_pandas builds: pd, __builtins__ and one copy per
\* input table
RECURSIVE BindCopies(_, _, _)
BindCopies(st, tables, names) ==
    IF names = <<>> THEN st
    ELSE IF Head(names) \in DOMAIN tables
    THEN BindCopies(BindNew(st, Head(names), st.heap[tables[Head(names)]]),
                    tables, Tail(names))
    ELSE BindCopies(st, tables, Tail(names))

Namespace(tables, hp) ==
    BindCopies(
        Running(("pd" :> PandasId) @@ ("__builtins__" :> BuiltinsId), hp),
        tables, TableOrder)

\* lines 75-85 without the isinstance test
CheckResultAnyType(st) ==
    IF "result" \notin DOMAIN st.ns
    THEN [NoOutcome EXCEPT !.error =
              ErrorMsg("Error: Your code must assign the output to a variable named",
                       "result")]
    ELSE [NoOutcome EXCEPT !.result = st.ns["result"]]

\* lines 75-85: the checks of 'result' after the program has run
CheckResult(st) ==
    IF "result" \notin DOMAIN st.ns
    THEN [NoOutcome EXCEPT !.error =
              ErrorMsg("Error: Your code must assign the output to a variable named",
                       "result")]
    ELSE IF ~IsDataFrame(st.heap[st.ns["result"]])
    THEN [NoOutcome EXCEPT !.error =
              ErrorMsg("Error: Expected result to be a DataFrame, but got",
                       st.heap[st.ns["result"]].type)]
    ELSE [NoOutcome EXCEPT !.result = st.ns["result"]]

\* signal.signal(signal.SIGALRM, signal_handler); signal.alarm(seconds)
SetAlarm(alarm, seconds) == [handler |-> "time_limit", pending |-> seconds]

\* the alarm once it has gone off: nothing is pending any more
Fired(alarm) == [alarm EXCEPT !.pending = 0]

\* a block that leaves the alarm as it is
KeepAlarm(alarm) == alarm

\* finally: signal.alarm(0)
DisableAlarm(alarm) == [alarm EXCEPT !.pending = 0]

\* the alarm after `with time_limit(EXECUTION_TIMEOUT)` was entered and left:
\* installed and set when signal.signal succeeded, gone off when the body
\* timed out, and disabled on the way out
AlarmAfter(alarm, installed, timed_out) ==
    IF ~installed THEN alarm
    ELSE DisableAlarm(IF timed_out
                      THEN Fired(SetAlarm(alarm, EXECUTION_TIMEOUT))
                      ELSE SetAlarm(alarm, EXECUTION_TIMEOUT))

\* the exception that leaves `with time_limit(...)` when its body raised exc:
\* with the alarm installed the generator is inside try ... except
\* (AttributeError, ValueError), catches these two and yields a second time,
\* which contextlib turns into a RuntimeError; in the fallback the generator
\* is inside the except clause and every exception passes
LeavesTimeLimit(exc, installed) ==
    IF installed /\ exc \in {"AttributeError", "ValueError"}
    THEN "RuntimeError" ELSE exc

\* the exceptions that are no Exception
BaseOnly == {"SystemExit", "KeyboardInterrupt"}

\* the except clauses of execute_pandas
HandleException(exc) ==
    IF exc = "TimeoutError"
    THEN [NoOutcome EXCEPT !.error =
              [kind |-> "Timeout Error", detail |-> "Code execution exceeded",
               limit |-> EXECUTION_TIMEOUT]]
    ELSE IF exc \in BaseOnly
    THEN [NoOutcome EXCEPT !.raised = exc]
    ELSE [NoOutcome EXCEPT !.error = ErrorMsg("Traceback", exc)]

\* one call execute_pandas(code, input_tables)
ExecutePandas ==
    /\ pc = "ready"
    /\ LET st == Exec(code, Namespace(input_tables, heap).ns,
                      Namespace(input_tables, heap).heap, can_alarm)
       IN  /\ heap' = st.heap
           /\ scope' = [status |-> st.status, exc |-> st.exc, ns |-> st.ns]
           /\ IF st.status = "loop"
              THEN /\ pc' = "hung"
                   /\ outcome' = outcome
              ELSE /\ pc' = "done"
                   /\ outcome' =
                          IF st.status = "ok" THEN CheckResult(st)
                          ELSE HandleException(LeavesTimeLimit(st.exc, can_alarm))
           /\ sigalrm' = AlarmAfter(sigalrm, can_alarm, st.status = "timeout")
    /\ UNCHANGED NonPandasVars

-----------------------------------------------------------------------------
(* execute_sql.  A query is one SQL statement; the database is a function    *)
(* from table names to tables.                                              *)

\* a cell sqlite3 cannot bind as a parameter (a Python list)
ListCell == [k |-> "list", n |-> 0, s |-> <<>>]

\* the queries: SELECT * FROM t; SELECT * FROM t LIMIT 1;
\* CREATE TABLE made AS SELECT * FROM t; DROP TABLE t; DELETE FROM t; text
\* that is no SQL; a query that takes longer than the limit; a recursive
\* query without end
Select(t) == [q |-> "select", t |-> t]

SelectLimit1(t) == [q |-> "limit", t |-> t]

CreateMadeAs(t) == [q |-> "create", t |-> t]

DropTable(t) == [q |-> "drop", t |-> t]

DeleteFrom(t) == [q |-> "delete", t |-> t]

\* SELECT * FROM t ORDER BY rowid DESC; SELECT <the columns reversed> FROM t;
\* SELECT <each number + 1> FROM t; SELECT * FROM t WHERE 0
SelectDesc(t) == [q |-> "desc", t |-> t]

SelectSwapped(t) == [q |-> "swapped", t |-> t]

SelectBumped(t) == [q |-> "bumped", t |-> t]

SelectNone(t) == [q |-> "where0", t |-> t]

BadSql == [q |-> "bad", t |-> ""]

SlowQuery == [q |-> "slow", t |-> ""]

EndlessQuery == [q |-> "endless", t |-> ""]

\* a connection to the database the earlier connection left
ConnectShared(earlier) == earlier

\* sqlite3.connect(':memory:'): a new, empty database, whatever database an
\* earlier connection held
Connect(earlier) == <<>>

\* df.to_sql(..., index=False) and back: the rows without their labels
ToSql(df) == reset_index(df).ret

\* every cell of df can be bound as a parameter of INSERT
Loadable(df) ==
    \A c \in 1..Len(df.columns) : \A i \in 1..Len(df.index) :
        df.data[c][i].k # "list"

\* the order of input_tables.items()
SqlTableOrder == <<"employees", "result", "bad">>

\* the loop of to_sql(..., if_exists='replace') over the tables: it stops at
\* the first table that cannot be loaded
RECURSIVE LoadTables(_, _, _, _)
LoadTables(db, tables, hp, names) ==
    IF names = <<>> THEN [db |-> db, exc |-> "none"]
    ELSE IF Head(names) \notin DOMAIN tables
    THEN LoadTables(db, tables, hp, Tail(names))
    ELSE IF ~Loadable(hp[tables[Head(names)]])
    THEN [db |-> db, exc |-> "InterfaceError"]
    ELSE LoadTables((Head(names) :> ToSql(hp[tables[Head(names)]])) @@ db,
                    tables, hp, Tail(names))

\* pd.read_sql_query(query, conn) on the database db: the database it leaves,
\* the result or the exception, and whether it ends at all.  A statement
\* that returns no rows takes effect, and pandas then fails on the cursor's
\* missing description with TypeError.
ReadSqlQuery(query, db) ==
    LET known == query.t \in DOMAIN db
        fails(exc) == [db |-> db, status |-> "raised", exc |-> exc,
                       result |-> Other("NoneType")]
        noRows(after) == [db |-> after, status |-> "raised", exc |-> "TypeError",
                          result |-> Other("NoneType")]
    IN  CASE query.q = "select" ->
                 IF known
                 THEN [db |-> db, status |-> "ok", exc |-> "none",
                       result |-> db[query.t]]
                 ELSE fails("DatabaseError")
          [] query.q = "limit" ->
                 IF known
                 THEN [db |-> db, status |-> "ok", exc |-> "none",
                       result |-> Head1(db[query.t])]
                 ELSE fails("DatabaseError")
          [] query.q \in {"desc", "swapped", "bumped", "where0"} ->
                 IF known
                 THEN [db |-> db, status |-> "ok", exc |-> "none",
                       result |->
                           CASE query.q = "desc" -> ToSql(Reversed(db[query.t]))
                             [] query.q = "swapped" -> Swapped(db[query.t])
                             [] query.q = "bumped" -> Bumped(db[query.t])
                             [] query.q = "where0" -> Emptied(db[query.t])]
                 ELSE fails("DatabaseError")
          [] query.q = "create" ->
                 IF known /\ "made" \notin DOMAIN db
                 THEN noRows(("made" :> db[query.t]) @@ db)
                 ELSE fails("DatabaseError")
          [] query.q = "drop" ->
                 IF known
                 THEN noRows([n \in (DOMAIN db) \ {query.t} |-> db[n]])
                 ELSE fails("DatabaseError")
          [] query.q = "delete" ->
                 IF known
                 THEN noRows([db EXCEPT ![query.t] = Emptied(db[query.t])])
                 ELSE fails("DatabaseError")
          [] query.q = "bad" -> fails("DatabaseError")
          [] query.q = "slow" ->
                 [db |-> db, status |-> "slow", exc |-> "none",
                  result |-> DataFrame(<<>>, <<>>, <<>>, <<>>)]
          [] query.q = "endless" ->
                 [db |-> db, status |-> "endless", exc |-> "none",
                  result |-> Other("NoneType")]

\* the moments at which the alarm can go off inside the timed block: not at
\* all, when connect has returned and conn is not yet assigned, while the
\* tables are loaded, while the query is read
AlarmMoments == {"never", "connect", "load", "query"}

\* the body of execute_sql up to its return: the connection, the exception
\* that left time_limit's block, the result
SqlBody(query, tables, hp, armed, at, earlier) ==
    LET fresh == Connect(earlier)
        load == LoadTables(fresh, tables, hp, SqlTableOrder)
        read == ReadSqlQuery(query, load.db)
        timeout(bound, loaded, db) ==
            [bound |-> bound, loaded |-> loaded, db |-> db, status |-> "raised",
             exc |-> "TimeoutError", result |-> Other("NoneType")]
    IN  IF armed /\ at = "connect" THEN timeout(FALSE, <<>>, fresh)
        ELSE IF armed /\ at = "load" THEN timeout(TRUE, <<>>, fresh)
        ELSE IF load.exc # "none"
        THEN [bound |-> TRUE, loaded |-> <<>>, db |-> load.db,
              status |-> "raised", exc |-> load.exc,
              result |-> Other("NoneType")]
        ELSE IF armed /\ (at = "query" \/ read.status = "slow")
        THEN timeout(TRUE, load.db, load.db)
        ELSE [bound |-> TRUE, loaded |-> load.db, db |-> read.db,
              status |-> IF read.status = "slow" THEN "ok" ELSE read.status,
              exc |-> read.exc, result |-> read.result]

\* a connection the finally clause does not close
LeaveOpen(bound) == "open"

\* the finally clause: conn.close() when conn is not None; a connection that
\* was never assigned to conn loses its only reference as the exception
\* unwinds, and its deallocator closes it
Finally(bound) == IF bound THEN "closed" ELSE "finalized"

\* one call execute_sql(query, input_tables)
ExecuteSql ==
    /\ pc = "ready"
    /\ \E at \in AlarmMoments :
         LET body == SqlBody(code, input_tables, heap, can_alarm, at, conn.db)
         IN  IF body.status = "endless"
             THEN /\ pc' = "hung"
                  /\ conn' = [bound |-> body.bound, state |-> "open",
                              loaded |-> body.loaded, db |-> body.db]
                  /\ sigalrm' = IF can_alarm
                                THEN Fired(SetAlarm(sigalrm, EXECUTION_TIMEOUT))
                                ELSE sigalrm
                  /\ UNCHANGED <<heap, outcome>>
             ELSE /\ pc' = "done"
                  /\ conn' = [bound |-> body.bound,
                              state |-> Finally(body.bound),
                              loaded |-> body.loaded, db |-> body.db]
                  /\ heap' = IF body.status = "ok"
                             THEN Append(heap, body.result) ELSE heap
                  /\ outcome' =
                         IF body.status = "ok"
                         THEN [NoOutcome EXCEPT !.result = Len(heap) + 1]
                         ELSE HandleException(LeavesTimeLimit(body.exc, can_alarm))
                  /\ sigalrm' = AlarmAfter(sigalrm, can_alarm,
                                           body.exc = "TimeoutError")
    /\ scope' = [status |-> "sql", exc |-> "none", ns |-> <<>>]
    /\ UNCHANGED NonSqlVars

-----------------------------------------------------------------------------
(* The tables the checks are run on. *)

\* column names; "Dtype" sorts before "a" and "b" and holds the word the
\* except branch looks for
ColNames == {<<"a">>, <<"b">>, <<"D","t","y","p","e">>}

\* the names of the structural checks: one more, "B", which sorts first
StructNames == ColNames \cup {<<"B">>}

\* every sequence of at most MaxCols distinct names of the set given
ColumnSeqsOf(names) ==
    UNION {{s \in [1..n -> names] : \A i, j \in 1..n : s[i] = s[j] => i = j}
               : n \in 0..MaxCols}

ColumnSeqs == ColumnSeqsOf(ColNames)

\* row labels of n rows: the default 0..n-1, or the odd labels 1, 3, ... that
\* a filter or a sort leaves behind
IndexChoices(n) == {[i \in 1..n |-> i - 1], [i \in 1..n |-> 2 * i - 1]}

\* n units of 1.0
Whole(n) == Num(n * ATOL_INV)

\* int64 tables whose cell in row i is base + i - 1 in every column
StructTables ==
    {DataFrame(idx, cols, [c \in 1..Len(cols) |-> "int64"],
               [c \in 1..Len(cols) |-> [i \in 1..Len(idx) |-> Whole(base + i - 1)]])
         : idx \in UNION {IndexChoices(n) : n \in 0..MaxRows},
           cols \in ColumnSeqsOf(StructNames),
           base \in {1, 2}}

\* values that are no DataFrame (test_wrong_type hands in a list)
OtherValues == {Other("list"), Other("int"), Other("Series"), Other("NoneType")}

NoVerdict == [is_correct |-> FALSE, feedback |-> Feedback("")]

\* the state of the variables no compare_dataframes call touches
ExecIdle ==
    /\ code = <<>>
    /\ input_tables = <<>>
    /\ heap = <<>>
    /\ can_alarm = FALSE
    /\ sigalrm = NoAlarm
    /\ scope = NoScope
    /\ outcome = NoOutcome
    /\ calls = <<>>
    /\ conn = NoConn
    /\ AppIdle

InitStruct ==
    /\ pc = "ready"
    /\ user_df \in StructTables \cup OtherValues
    /\ expected_df \in StructTables
    /\ verdict = NoVerdict
    /\ ExecIdle

\* one call compare_dataframes(user_df, expected_df)
Compare ==
    /\ pc = "ready"
    /\ pc' = "done"
    /\ verdict' = compare_dataframes(user_df, expected_df)
    /\ user_df' = OperandsAfter(user_df, expected_df)[1]
    /\ expected_df' = OperandsAfter(user_df, expected_df)[2]
    /\ UNCHANGED NonCompareVars

\* a column's dtype and cells
Column(dtype, vals) == [dtype |-> dtype, vals |-> vals]

\* the kinds of expected column
ColumnKinds == {"int64", "float64", "missing", "object"}

\* the expected column of a kind with n rows: 1, 2, ... as int64 or float64,
\* the same with the last value missing, or the texts x, y, x, ...
Canon(kind, n) ==
    CASE kind = "int64"   -> Column("int64", [i \in 1..n |-> Whole(i)])
      [] kind = "float64" -> Column("float64", [i \in 1..n |-> Whole(i)])
      [] kind = "missing" ->
             Column("float64", [i \in 1..n |-> IF i = n THEN NaN ELSE Whole(i)])
      [] kind = "object"  ->
             Column("object",
                    [i \in 1..n |-> Str(IF i % 2 = 1 THEN <<"x">> ELSE <<"y">>)])

\* the ways a submitted column departs from the expected one
Variants(kind) ==
    CASE kind = "int64"   -> {"same", "cast", "nudged", "wrong", "reversed", "text"}
      [] kind = "float64" -> {"same", "cast", "nudged", "wrong", "blank"}
      [] kind = "missing" -> {"same", "wrong"}
      [] kind = "object"  -> {"same", "wrong", "reversed"}

\* the submitted column: the expected one (same), in the other numeric dtype
\* (cast), with 1e-7 added to every value (nudged), with a wrong last value
\* (wrong), in reverse row order (reversed), with its last value missing
\* (blank), or with every value as text (text)
Vary(col, v) ==
    LET n == Len(col.vals)
        last == col.vals[n]
    IN  CASE v = "same" -> col
          [] v = "cast" ->
                 Column(IF col.dtype = "int64" THEN "float64" ELSE "int64", col.vals)
          [] v = "nudged" ->
                 Column("float64", [i \in 1..n |-> Num(col.vals[i].n + 10)])
          [] v = "wrong" ->
                 Column(col.dtype,
                        [i \in 1..n |->
                            IF i < n THEN col.vals[i]
                            ELSE IF last.k = "num" THEN Num(last.n + ATOL_INV)
                            ELSE IF last.k = "nan" THEN Whole(n)
                            ELSE Str(<<"z">>)])
          [] v = "reversed" ->
                 Column(col.dtype, [i \in 1..n |-> col.vals[n + 1 - i]])
          [] v = "blank" ->
                 Column("float64", [i \in 1..n |-> IF i = n THEN NaN ELSE col.vals[i]])
          [] v = "text" ->
                 Column("object",
                        [i \in 1..n |-> Str(CellStr(col.vals[i], col.dtype))])

\* the DataFrame of the columns given under the names and row labels given
FrameOf(idx, names, cols) ==
    DataFrame(idx, names, [c \in 1..Len(names) |-> cols[c].dtype],
              [c \in 1..Len(names) |-> cols[c].vals])

\* an expected table of canonical columns and a submission with the same
\* column names and row count, each of its columns a variant of the expected
InitValue ==
    /\ pc = "ready"
    /\ \E names \in ColumnSeqs, n \in 0..MaxRows :
         \E kinds \in [1..Len(names) -> ColumnKinds], idx \in IndexChoices(n) :
           \E vs \in [1..Len(names) -> UNION {Variants(k) : k \in ColumnKinds}] :
             /\ \A c \in 1..Len(names) : vs[c] \in Variants(kinds[c])
             /\ expected_df =
                    FrameOf([i \in 1..n |-> i - 1], names,
                            [c \in 1..Len(names) |-> Canon(kinds[c], n)])
             /\ user_df =
                    FrameOf(idx, names,
                            [c \in 1..Len(names) |-> Vary(Canon(kinds[c], n), vs[c])])
    /\ verdict = NoVerdict
    /\ ExecIdle

\* the numbers of the tolerance tests and two more, 0.0045 and 0.00450005,
\* where the relative and the absolute tolerance are of one size
IntCells == {Whole(1), Whole(2)}

FloatCells ==
    {Whole(1), Num(ATOL_INV + 10), Num(ATOL_INV + ATOL_INV \div 10),
     Num((9 * RTOL_INV) \div 2), Num((9 * RTOL_INV) \div 2 + 5)}

\* every numeric column of n rows
NumericColumns(n) ==
    {Column("int64", vals) : vals \in [1..n -> IntCells]}
    \cup {Column("float64", vals) : vals \in [1..n -> FloatCells]}

\* two one-column numeric tables named "value" (test_float_comparison,
\* test_int_float_equivalence) of one row count
InitTol ==
    /\ pc = "ready"
    /\ \E n \in 1..MaxRows :
         \E ucol \in NumericColumns(n), ecol \in NumericColumns(n) :
           /\ user_df = FrameOf([i \in 1..n |-> i - 1], <<<<"v","a","l","u","e">>>>,
                                <<ucol>>)
           /\ expected_df = FrameOf([i \in 1..n |-> i - 1],
                                    <<<<"v","a","l","u","e">>>>, <<ecol>>)
    /\ verdict = NoVerdict
    /\ ExecIdle

\* the state of the variables no execute_pandas call touches
CompareIdle ==
    /\ user_df = Other("NoneType")
    /\ expected_df = Other("NoneType")
    /\ verdict = NoVerdict

\* the caller's tables: employees, and a table that is itself named result
Employees ==
    DataFrame(<<0, 1>>, <<<<"a">>, <<"b">>>>, <<"int64", "object">>,
              <<<<Whole(1), Whole(2)>>, <<Str(<<"x">>), Str(<<"y">>)>>>>)

ResultTable == DataFrame(<<0>>, <<<<"a">>>>, <<"float64">>, <<<<Whole(1)>>>>)

\* the objects that exist before a call: the caller's two tables, and the
\* modules pandas and builtins with nothing set on them
CallerHeap == <<Employees, ResultTable, Module(<<>>, <<>>), Module(<<>>, <<>>)>>

\* the caller's input_tables: none, employees, or employees and result
TableSets ==
    {[n \in {} |-> None],
     [n \in {"employees"} |-> 1],
     [n \in {"employees", "result"} |-> IF n = "employees" THEN 1 ELSE 2]}

Statements ==
    {Assign(t, e) : t \in {"result", "tmp"},
                    e \in {Ref("employees"), Ref("tmp"), Ref("pd"), IntLit,
                           ColumnOf("employees"), HeadOf("employees"),
                           HeadOf("tmp"), AttrOf("pd")}}
    \cup {Del("result"), DropInplace("employees"), Loop, SyntaxErr,
          SetAttr("pd", "employees")}
    \cup {Raise(exc) : exc \in {"KeyError", "ValueError", "SystemExit"}}

\* every program of at most MaxStmts statements
Programs == UNION {[1..n -> Statements] : n \in 0..MaxStmts}

InitExec ==
    /\ pc = "ready"
    /\ CompareIdle
    /\ code \in Programs
    /\ input_tables \in TableSets
    /\ heap = CallerHeap
    /\ can_alarm \in BOOLEAN
    /\ sigalrm = NoAlarm
    /\ scope = NoScope
    /\ outcome = NoOutcome
    /\ calls = <<>>
    /\ conn = NoConn
    /\ AppIdle

NextExec == ExecutePandas

\* what the caller sees of a call that returned: the table itself, not its id
OutcomeView ==
    [result |-> IF outcome.result = None THEN Other("NoneType")
                ELSE heap[outcome.result],
     error  |-> outcome.error,
     raised |-> outcome.raised]

\* the heap once a call's namespace and result are dropped: the caller's
\* objects and the two modules stay, and so does the object that is bound to
\* an attribute of pd, under the next free id
Collected(hp) ==
    LET pd == hp[PandasId]
        kept == SubSeq(hp, 1, Len(CallerHeap))
    IN  IF pd.data = <<>> \/ pd.data[1] <= Len(CallerHeap) THEN kept
        ELSE Append([kept EXCEPT ![PandasId] =
                         Module(pd.columns, <<Len(CallerHeap) + 1>>)],
                    hp[pd.data[1]])

\* the programs of the repeated calls: one that empties its table in place
\* and returns it, ones that return the table or a part of it, ones that set
\* an attribute of the module pd, one that reads it, two that break the
\* contract of result, and one that never ends
CallPrograms ==
    {<<DropInplace("employees"), Assign("result", Ref("employees"))>>,
     <<Assign("result", Ref("employees"))>>,
     <<Assign("result", HeadOf("employees"))>>,
     <<SetAttr("pd", "employees")>>,
     <<DropInplace("employees"), SetAttr("pd", "employees")>>,
     <<Assign("result", AttrOf("pd"))>>,
     <<Assign("result", IntLit)>>,
     <<Loop>>,
     <<>>}

\* the caller notes what the call returned and calls again, with the same
\* input_tables and any of the programs
NextCall ==
    /\ pc = "done"
    /\ Len(calls) < MaxCalls
    /\ calls' = Append(calls, [code |-> code, outcome |-> OutcomeView])
    /\ code' \in CallPrograms
    /\ heap' = Collected(heap)
    /\ pc' = "ready"
    /\ scope' = NoScope
    /\ outcome' = NoOutcome
    /\ UNCHANGED NonCallerVars

InitCalls ==
    /\ InitExec
    /\ code \in CallPrograms

NextCalls == ExecutePandas \/ NextCall

SpecCalls == InitCalls /\ [][NextCalls]_vars

NextCompare == Compare

SpecStruct == InitStruct /\ [][NextCompare]_vars

SpecValue == InitValue /\ [][NextCompare]_vars

SpecTol == InitTol /\ [][NextCompare]_vars

SpecExec == InitExec /\ [][NextExec]_vars

\* a table with a cell that cannot be loaded into sqlite
Unloadable == DataFrame(<<0>>, <<<<"a">>>>, <<"object">>, <<<<ListCell>>>>)

SqlHeap == CallerHeap \o <<Unloadable>>

\* the caller's input_tables of the SQL calls
SqlTableSets ==
    TableSets \cup
    {[n \in {"employees", "bad"} |-> IF n = "employees" THEN 1 ELSE Len(SqlHeap)]}

Queries ==
    {Select(t) : t \in {"employees", "result", "made"}}
    \cup {SelectLimit1("employees"), CreateMadeAs("employees"),
          DropTable("employees"), DeleteFrom("employees"),
          BadSql, SlowQuery, EndlessQuery}

InitSql ==
    /\ pc = "ready"
    /\ CompareIdle
    /\ code \in Queries
    /\ input_tables \in SqlTableSets
    /\ heap = SqlHeap
    /\ can_alarm \in BOOLEAN
    /\ sigalrm = NoAlarm
    /\ scope = NoScope
    /\ outcome = NoOutcome
    /\ calls = <<>>
    /\ conn = NoConn
    /\ AppIdle

\* the caller notes what the call returned and runs another query on the
\* same input_tables
NextQuery ==
    /\ pc = "done"
    /\ Len(calls) < MaxCalls
    /\ calls' = Append(calls, [code |-> code, outcome |-> OutcomeView])
    /\ code' \in Queries
    /\ heap' = SubSeq(heap, 1, Len(SqlHeap))
    /\ pc' = "ready"
    /\ scope' = NoScope
    /\ outcome' = NoOutcome
    /\ UNCHANGED NonCallerVars

NextSql == ExecuteSql \/ NextQuery

SpecSql == InitSql /\ [][NextSql]_vars

-----------------------------------------------------------------------------
(* generate_problem: the verification of the two reference solutions.       *)

\* execute_pandas as its caller sees it: whether it returned, the table and
\* the error of the returned pair, the exception that left it, the heap
RunPandas(program, tables, hp, armed) ==
    LET view(st, out) ==
            IF st.status = "loop"
            THEN [hung |-> TRUE, raised |-> "none", error |-> NoError,
                  result |-> Other("NoneType"), heap |-> st.heap]
            ELSE [hung |-> FALSE, raised |-> out.raised, error |-> out.error,
                  result |-> IF out.result = None THEN Other("NoneType")
                             ELSE st.heap[out.result],
                  heap |-> st.heap]
        ended(st) ==
            view(st, IF st.status = "ok" THEN CheckResult(st)
                     ELSE HandleException(LeavesTimeLimit(st.exc, armed)))
        entered(space) == ended(Exec(program, space.ns, space.heap, armed))
    IN  entered(Namespace(tables, hp))

\* execute_sql as its caller sees it
RunSql(query, tables, hp, armed, at) ==
    LET view(body, out) ==
            IF body.status = "endless"
            THEN [hung |-> TRUE, raised |-> "none", error |-> NoError,
                  result |-> Other("NoneType")]
            ELSE IF body.status = "ok"
            THEN [hung |-> FALSE, raised |-> "none", error |-> NoError,
                  result |-> body.result]
            ELSE [hung |-> FALSE, raised |-> out.raised, error |-> out.error,
                  result |-> Other("NoneType")]
        ended(body) ==
            view(body, HandleException(LeavesTimeLimit(body.exc, armed)))
    IN  ended(SqlBody(query, tables, hp, armed, at, <<>>))

\* no sql_solution in the response (None or "")
NoQuery == [q |-> "none", t |-> ""]

\* a test of emptiness that no table meets
NeverEmpty(df) == FALSE

\* DataFrame.empty: no rows or no columns
IsEmpty(df) == Len(df.index) = 0 \/ Len(df.columns) = 0

\* the skills of pandas-only problems
PandasOnlySkills == {"pivot", "melt"}

\* the test for pivot alone
IsPandasOnlyPivot(skills) == \E i \in 1..Len(skills) : skills[i] = "pivot"

\* any(skill in ["pivot", "melt"] for skill in skills)
IsPandasOnly(skills) == \E i \in 1..Len(skills) : skills[i] \in PandasOnlySkills

\* the tables of a namespace of ids, by value
TablesOf(tables, hp) == [n \in DOMAIN tables |-> hp[tables[n]]]

\* how a call of generate_problem ended: it returned a Problem, it raised exc
\* with the message given, or it never came back; the backends it ran with
\* what they returned; and the heap it left
Ended(how, exc, message, ran, p, q, prob) ==
    [ended |-> how, exc |-> exc, message |-> message, ran |-> ran,
     pandas |-> p, sql |-> q, problem |-> prob, heap |-> <<>>]

\* a backend that was not run
NotRun ==
    [hung |-> FALSE, raised |-> "none", error |-> NoError,
     result |-> Other("NoneType")]

\* raise ValueError(message)
ValueErrorOf(message, ran, p, q) ==
    Ended("raised", "ValueError", message, ran, p, q, NoProblem)

\* a generation that takes the two results to agree without comparing them
is_match_assumed(pandas_result, sql_result) == TRUE

\* is_match, feedback = compare_dataframes(pandas_result, sql_result)
is_match(pandas_result, sql_result) ==
    compare_dataframes(pandas_result, sql_result).is_correct

\* generate_problem from the parsed response on: the solutions are checked
\* for presence, run, and compared
generate_problem(resp, tables, hp, armed, at) ==
    LET judged(is_pandas_only, p, q, match, hp_after) ==
            LET made(sql_solution, ran, qq) ==
                    Ended("returned", "none", "", ran, p, qq,
                          [input_tables |-> TablesOf(tables, hp),
                           question |-> resp.question,
                           expected_output |-> p.result,
                           topic |-> resp.topic,
                           difficulty |-> resp.difficulty,
                           pandas_solution |-> resp.pandas_solution,
                           sql_solution |-> sql_solution,
                           pandas_only |-> is_pandas_only])
            IN  IF resp.pandas_solution = <<>>
                THEN ValueErrorOf("API response is missing pandas_solution",
                                  <<>>, NotRun, NotRun)
                ELSE IF ~is_pandas_only /\ resp.sql_solution = NoQuery
                THEN ValueErrorOf("API response is missing sql_solution",
                                  <<>>, NotRun, NotRun)
                ELSE IF p.hung
                THEN Ended("hung", "none", "", <<"pandas">>, p, NotRun, NoProblem)
                ELSE IF p.raised # "none"
                THEN Ended("raised", p.raised, "", <<"pandas">>, p, NotRun,
                           NoProblem)
                ELSE IF p.error # NoError
                THEN ValueErrorOf("Claude's pandas solution failed to execute",
                                  <<"pandas">>, p, NotRun)
                ELSE IF IsEmpty(p.result)
                THEN ValueErrorOf("Claude's pandas solution produced no output",
                                  <<"pandas">>, p, NotRun)
                ELSE IF is_pandas_only
                THEN made(NoQuery, <<"pandas">>, NotRun)
                ELSE IF q.hung
                THEN Ended("hung", "none", "", <<"pandas", "sql">>, p, q,
                           NoProblem)
                ELSE IF q.error # NoError
                THEN ValueErrorOf("Claude's SQL solution failed to execute",
                                  <<"pandas", "sql">>, p, q)
                ELSE IF IsEmpty(q.result)
                THEN ValueErrorOf("Claude's SQL solution produced no output",
                                  <<"pandas", "sql">>, p, q)
                ELSE IF ~match
                THEN ValueErrorOf(
                         "Claude's pandas and SQL solutions produce different results",
                         <<"pandas", "sql", "compare">>, p, q)
                ELSE made(resp.sql_solution, <<"pandas", "sql", "compare">>, q)
        compared(p, q, hp_after) ==
            judged(IsPandasOnly(resp.skills), p, q,
                   is_match(p.result, q.result), hp_after)
        after(run) ==
            compared([hung |-> run.hung, raised |-> run.raised,
                      error |-> run.error, result |-> run.result],
                     RunSql(resp.sql_solution, tables, run.heap, armed, at),
                     run.heap)
        ended(g, run) == [g EXCEPT !.heap = IF g.ran = <<>> THEN hp ELSE run.heap]
        called(run) == ended(after(run), run)
    IN  called(RunPandas(resp.pandas_solution, tables, hp, armed))

\* one call of generate_problem
GenerateProblem ==
    /\ pc = "ready"
    /\ \E at \in AlarmMoments :
         \E g \in {generate_problem(response, input_tables, heap, can_alarm, at)} :
             /\ generated' = [ended |-> g.ended, exc |-> g.exc,
                              message |-> g.message, ran |-> g.ran,
                              pandas |-> g.pandas, sql |-> g.sql]
             /\ problem' = g.problem
             /\ pc' = IF g.ended = "hung" THEN "hung" ELSE "done"
             /\ heap' = Collected(g.heap)
             /\ sigalrm' = AlarmAfter(sigalrm, can_alarm /\ g.ran # <<>>,
                                      FALSE)
    /\ UNCHANGED <<user_df, expected_df, verdict, code, input_tables, can_alarm,
                   scope, outcome, calls, conn, response, json_dict, imported,
                   verification, session, language,
                   PageVars>>

\* the skills selected for a problem
SkillSets ==
    {<<"filter_rows">>, <<"pivot">>, <<"filter_rows", "melt">>,
     <<"group_by", "joins">>}

\* the pandas_solution of a response: missing, right, a part of the table,
\* the rows or the columns the other way round, no rows, not a table, no
\* result, an exception, an exit, an endless loop, text that does not compile
GenPrograms ==
    {<<>>,
     <<Assign("result", Ref("employees"))>>,
     <<Assign("result", HeadOf("employees"))>>,
     <<Assign("result", ReversedOf("employees"))>>,
     <<Assign("result", SwappedOf("employees"))>>,
     <<DropInplace("employees"), Assign("result", Ref("employees"))>>,
     <<Assign("result", IntLit)>>,
     <<Assign("tmp", Ref("employees"))>>,
     <<Raise("KeyError")>>,
     <<Raise("ValueError")>>,
     <<Raise("SystemExit")>>,
     <<Loop>>,
     <<SyntaxErr>>}

\* the sql_solution of a response
GenQueries ==
    {NoQuery, Select("employees"), SelectLimit1("employees"),
     SelectDesc("employees"), SelectSwapped("employees"),
     SelectBumped("employees"), SelectNone("employees"), Select("made"),
     DeleteFrom("employees"), BadSql, SlowQuery, EndlessQuery}

InitGen ==
    /\ pc = "ready"
    /\ CompareIdle
    /\ code = <<>>
    /\ input_tables \in TableSets \ {<<>>}
    /\ heap = CallerHeap
    /\ can_alarm \in BOOLEAN
    /\ sigalrm = NoAlarm
    /\ scope = NoScope
    /\ outcome = NoOutcome
    /\ calls = <<>>
    /\ conn = NoConn
    /\ response \in [skills : SkillSets, pandas_solution : GenPrograms,
                      sql_solution : GenQueries, question : {"Q"},
                      topic : {"filter_rows"}, difficulty : {"easy"}]
    /\ generated = <<>>
    /\ problem = NoProblem
    /\ json_dict = <<>>
    /\ imported = NoProblem
    /\ verification = <<>>
    /\ session = <<>>
    /\ language = ""
    /\ PageIdle

\* verify_problem_solutions(problem): each solution is run again and its
\* result compared with expected_output; ran lists the backends run
verify_problem_solutions(prob, tables, hp, armed, at) ==
    LET pandas_runs == prob.pandas_solution # <<>>
        sql_runs == prob.sql_solution # NoQuery /\ ~prob.pandas_only
        judged(p, q, pandas_match, sql_match) ==
            LET pandas_ok == p.error = NoError /\ p.result.type # "NoneType"
                sql_ok == q.error = NoError /\ q.result.type # "NoneType"
            IN  IF pandas_runs /\ p.hung
                THEN [ended |-> "hung", ran |-> <<"pandas">>]
                ELSE IF pandas_runs /\ p.raised # "none"
                THEN [ended |-> "raised", ran |-> <<"pandas">>]
                ELSE IF sql_runs /\ q.hung
                THEN [ended |-> "hung",
                      ran |-> (IF pandas_runs THEN <<"pandas">> ELSE <<>>)
                              \o <<"sql">>]
                ELSE [ended |-> "returned",
                      ran |-> (IF pandas_runs THEN <<"pandas">> ELSE <<>>)
                              \o (IF sql_runs THEN <<"sql">> ELSE <<>>),
                      pandas_valid |->
                          pandas_runs /\ pandas_ok /\ pandas_match.is_correct,
                      pandas_error |-> IF pandas_runs THEN p.error ELSE NoError,
                      pandas_feedback |->
                          IF ~pandas_runs THEN "None"
                          ELSE IF pandas_ok THEN pandas_match.feedback.kind
                          ELSE "Pandas solution failed to execute",
                      sql_valid |-> IF sql_runs THEN sql_ok /\ sql_match.is_correct
                                    ELSE prob.pandas_only,
                      sql_error |-> IF sql_runs THEN q.error ELSE NoError,
                      sql_feedback |->
                          IF sql_runs
                          THEN (IF sql_ok THEN sql_match.feedback.kind
                                ELSE "SQL solution failed to execute")
                          ELSE IF prob.pandas_only
                          THEN "N/A (pandas-only problem)"
                          ELSE "None"]
        compared(p, q) ==
            judged(p, q, compare_dataframes(p.result, prob.expected_output),
                   compare_dataframes(q.result, prob.expected_output))
    IN  compared(RunPandas(prob.pandas_solution, tables, hp, armed),
                 RunSql(prob.sql_solution, tables, hp, armed, at))

\* one call of verify_problem_solutions on the Problem generate_problem
\* returned
VerifyProblem ==
    /\ pc = "done"
    /\ generated.ended = "returned"
    /\ \E at \in AlarmMoments :
         \E v \in {verify_problem_solutions(problem, input_tables, heap,
                                            can_alarm, at)} :
             /\ verification' = v
             /\ pc' = IF v.ended = "hung" THEN "hung" ELSE "verified"
    /\ UNCHANGED <<user_df, expected_df, verdict, code, input_tables, heap,
                   can_alarm, sigalrm, scope, outcome, calls, conn, response,
                   generated, problem, json_dict, imported, session, language,
                   PageVars>>

NextGen == GenerateProblem \/ VerifyProblem

SpecGen == InitGen /\ [][NextGen]_vars

-----------------------------------------------------------------------------
(* Problem.to_json and Problem.from_json. A table becomes its column list   *)
(* and its rows, each row a dict from column name to a Python value, and is *)
(* built again by pd.DataFrame(rows, columns=column list).                  *)

\* the Python value to_dict hands out for a cell of a column of the dtype
\* given: int for int64, float for float64 and for the missing value, and the
\* object itself otherwise
Boxed(dtype, cell) ==
    [py |-> IF cell.k = "str" THEN "str"
            ELSE IF cell.k = "nan" \/ dtype = "float64" THEN "float"
            ELSE IF dtype = "int64" THEN "int"
            ELSE "float",
     cell |-> cell]

\* the last column of df that carries the name
LastNamed(df, name) ==
    CHOOSE c \in 1..Len(df.columns) :
        /\ df.columns[c] = name
        /\ \A d \in 1..Len(df.columns) : df.columns[d] = name => d <= c

\* df.to_dict(orient='records'): one dict per row, in row order, without the
\* row labels
to_dict_records(df) ==
    [i \in 1..Len(df.index) |->
        [name \in Range(df.columns) |->
            Boxed(df.dtypes[LastNamed(df, name)], df.data[LastNamed(df, name)][i])]]

\* {'columns': list(df.columns), 'data': df.to_dict(orient='records')}
TableJson(df) == [columns |-> df.columns, data |-> to_dict_records(df)]

\* the dtype pandas infers for the values of a new column
InferDtype(values) ==
    IF values = <<>> THEN "object"
    ELSE IF \A i \in 1..Len(values) : values[i].py = "int" THEN "int64"
    ELSE IF \A i \in 1..Len(values) : values[i].py \in {"int", "float"}
    THEN "float64"
    ELSE "object"

\* the table of the rows given with the columns given: a row without a
\* column's name has the missing value there; the rows are labelled 0..N-1
TableOfRecords(data, columns) ==
    LET cellOf(i, c) ==
            IF columns[c] \in DOMAIN data[i] THEN data[i][columns[c]]
            ELSE Boxed("float64", NaN)
        boxed == [c \in 1..Len(columns) |-> [i \in 1..Len(data) |-> cellOf(i, c)]]
    IN  DataFrame([i \in 1..Len(data) |-> i - 1], columns,
                  [c \in 1..Len(columns) |-> InferDtype(boxed[c])],
                  [c \in 1..Len(columns) |->
                      [i \in 1..Len(data) |-> boxed[c][i].cell]])

\* pd.DataFrame(rows): the columns are the keys of the rows
DataFrameOfRows(data, columns) ==
    TableOfRecords(data, IF data = <<>> THEN <<>> ELSE columns)

\* pd.DataFrame(table_data['data'], columns=table_data['columns'])
DataFrameOfRecords(data, columns) == TableOfRecords(data, columns)

\* Problem.to_json()
to_json(p) ==
    [input_tables |-> [name \in DOMAIN p.input_tables |->
                          TableJson(p.input_tables[name])],
     question |-> p.question,
     expected_output |-> TableJson(p.expected_output),
     topic |-> p.topic,
     difficulty |-> p.difficulty,
     pandas_solution |-> p.pandas_solution,
     sql_solution |-> p.sql_solution,
     pandas_only |-> p.pandas_only]

RequiredFields == {"input_tables", "question", "expected_output", "topic"}

TableFields == {"columns", "data"}

\* what from_json raises for the dict given, "none" when it returns
FromJsonError(d) ==
    IF ~(RequiredFields \subseteq DOMAIN d) THEN "ValueError"
    ELSE IF \E name \in DOMAIN d.input_tables :
                ~(TableFields \subseteq DOMAIN d.input_tables[name])
    THEN "ValueError"
    ELSE IF ~(TableFields \subseteq DOMAIN d.expected_output) THEN "ValueError"
    ELSE "none"

\* d.get(key, default)
Get(d, key, default) == IF key \in DOMAIN d THEN d[key] ELSE default

\* Problem.from_json(d) where it returns
from_json(d) ==
    [input_tables |->
         [name \in DOMAIN d.input_tables |->
             DataFrameOfRecords(d.input_tables[name].data,
                                d.input_tables[name].columns)],
     question |-> d.question,
     expected_output |->
         DataFrameOfRecords(d.expected_output.data, d.expected_output.columns),
     topic |-> d.topic,
     difficulty |-> Get(d, "difficulty", "easy"),
     pandas_solution |-> Get(d, "pandas_solution", <<>>),
     sql_solution |-> Get(d, "sql_solution", NoQuery),
     pandas_only |-> Get(d, "pandas_only", FALSE)]

\* one call problem.to_json()
ToJson ==
    /\ pc = "ready"
    /\ pc' = "exported"
    /\ json_dict' = to_json(problem)
    /\ UNCHANGED <<user_df, expected_df, verdict, code, input_tables, heap,
                   can_alarm, sigalrm, scope, outcome, calls, conn, response,
                   generated, problem, imported, verification, session,
                   language,
                   PageVars>>

\* one call Problem.from_json(json_dict)
FromJson ==
    /\ pc = "exported"
    /\ pc' = IF FromJsonError(json_dict) # "none" THEN "raised" ELSE "imported"
    /\ imported' = IF FromJsonError(json_dict) # "none" THEN NoProblem
                   ELSE from_json(json_dict)
    /\ UNCHANGED <<user_df, expected_df, verdict, code, input_tables, heap,
                   can_alarm, sigalrm, scope, outcome, calls, conn, response,
                   generated, problem, json_dict, verification, session,
                   language,
                   PageVars>>

\* the tables of the Problems: every choice of distinct column names, row
\* count, row labels and column kinds
JsonTables ==
    {FrameOf(idx, names, [c \in 1..Len(names) |-> Canon(kinds[c], Len(idx))])
         : idx \in UNION {IndexChoices(n) : n \in 0..MaxRows},
           names \in ColumnSeqs \ {<<>>},
           kinds \in [1..MaxCols -> ColumnKinds]}

\* the Problems: one table as expected output and among the inputs
InitJson ==
    /\ pc = "ready"
    /\ CompareIdle
    /\ code = <<>>
    /\ input_tables = <<>>
    /\ heap = <<>>
    /\ can_alarm = FALSE
    /\ sigalrm = NoAlarm
    /\ scope = NoScope
    /\ outcome = NoOutcome
    /\ calls = <<>>
    /\ conn = NoConn
    /\ \E t \in JsonTables, difficulty \in {"easy", "hard"},
          only \in BOOLEAN, query \in {NoQuery, Select("employees")} :
         \E tables \in {[n \in {"employees"} |-> t],
                        [n \in {"employees", "result"} |->
                            IF n = "employees" THEN Employees ELSE t]} :
           problem = [input_tables |-> tables, question |-> "Q",
                      expected_output |-> t, topic |-> "filter_rows",
                      difficulty |-> difficulty,
                      pandas_solution |-> <<Assign("result", Ref("employees"))>>,
                      sql_solution |-> query, pandas_only |-> only]
    /\ response = <<>>
    /\ generated = <<>>
    /\ json_dict = <<>>
    /\ imported = NoProblem
    /\ verification = <<>>
    /\ session = <<>>
    /\ language = ""
    /\ PageIdle

NextJson == ToJson \/ FromJson

SpecJson == InitJson /\ [][NextJson]_vars

-----------------------------------------------------------------------------
(* The 'Run Code' button of the page: session holds show_expected,          *)
(* result_df, error_message, is_correct and feedback_message of             *)
(* st.session_state, and in ran the backend calls the last run made, each   *)
(* with the tables it was given and what came back.                         *)

\* the session state of a new session
NewSession ==
    [show_expected |-> FALSE, result_df |-> Other("NoneType"),
     error_message |-> NoError, is_correct |-> "None",
     feedback_message |-> Feedback("None"), ran |-> <<>>]

\* "Please enter some code first!"
EnterCodeFirst == ErrorMsg("Please enter some code first!", "")

\* not user_code.strip(): the code box holds nothing but white space. The
\* text of the box is the statements of a program or one query.
IsBlank(user_code) == user_code = <<>>

\* the call of one backend as ran keeps it
BackendCall(lang, tables, r) ==
    [backend |-> lang, tables |-> tables, hung |-> r.hung, raised |-> r.raised,
     error |-> r.error, result |-> r.result]

\* the handler of the button: show_expected is cleared first; blank code is
\* answered without a backend; otherwise the backend of the language is
\* called, and what it returned is stored and, when it is a table without an
\* error, compared with expected_output. A backend that does not return
\* leaves the handler where it was called.
run_code(sess, prob, user_code, lang, tables, hp, armed, at) ==
    LET cleared == [sess EXCEPT !.show_expected = FALSE]
        stored(r, v, call) ==
            LET compared == r.error = NoError /\ r.result.type # "NoneType"
            IN  IF r.hung
                THEN [ended |-> "hung", heap |-> r.heap,
                      session |-> [cleared EXCEPT !.ran = <<call>>]]
                ELSE IF r.raised # "none"
                THEN [ended |-> "raised", heap |-> r.heap,
                      session |-> [cleared EXCEPT !.ran = <<call>>]]
                ELSE [ended |-> "returned", heap |-> r.heap,
                      session |->
                          [cleared EXCEPT
                              !.result_df = r.result,
                              !.error_message = r.error,
                              !.is_correct =
                                  IF ~compared THEN "None"
                                  ELSE IF v.is_correct THEN "True" ELSE "False",
                              !.feedback_message = IF compared THEN v.feedback
                                                   ELSE Feedback("None"),
                              !.ran = <<call>>]]
        returned(r) ==
            stored(r, compare_dataframes(r.result, prob.expected_output),
                   BackendCall(lang, TablesOf(tables, hp), r))
    IN  IF IsBlank(user_code)
        THEN [ended |-> "returned", heap |-> hp,
              session |-> [cleared EXCEPT !.result_df = Other("NoneType"),
                                          !.error_message = EnterCodeFirst,
                                          !.is_correct = "None",
                                          !.feedback_message = Feedback("None"),
                                          !.ran = <<>>]]
        ELSE IF lang = "Pandas"
        THEN returned(RunPandas(user_code, tables, hp, armed))
        ELSE returned(RunSql(user_code[1], tables, hp, armed, at)
                      @@ [heap |-> hp])

\* the button is pressed
RunCode ==
    /\ pc = "ready"
    /\ \E at \in AlarmMoments :
         \E run \in {run_code(session, problem, code, language, input_tables,
                              heap, can_alarm, at)} :
             /\ session' = run.session
             /\ heap' = Collected(run.heap)
             /\ pc' = CASE run.ended = "returned" -> "shown"
                        [] run.ended = "raised" -> "interrupted"
                        [] run.ended = "hung" -> "hung"
    /\ sigalrm' = AlarmAfter(sigalrm, can_alarm /\ ~IsBlank(code), FALSE)
    /\ calls' = Append(calls, [code |-> code, language |-> language])
    /\ UNCHANGED <<user_df, expected_df, verdict, code, input_tables, can_alarm,
                   scope, outcome, conn, response, generated, problem,
                   json_dict, imported, verification, language,
                   PageVars>>

\* 'Show Expected Output', offered beside a result that is not correct
ShowExpected ==
    /\ pc = "shown"
    /\ session.error_message = NoError
    /\ session.result_df.type # "NoneType"
    /\ session.is_correct = "False"
    /\ ~session.show_expected
    /\ session' = [session EXCEPT !.show_expected = TRUE]
    /\ pc' = "expected"
    /\ UNCHANGED <<user_df, expected_df, verdict, code, input_tables, heap,
                   can_alarm, sigalrm, scope, outcome, calls, conn, response,
                   generated, problem, json_dict, imported, verification,
                   language,
                   PageVars>>

\* the code a learner enters as pandas: nothing, the table, a part of it, a
\* number, no result, an exception, an exit, an endless loop, text that does
\* not compile
UserPrograms ==
    {<<>>,
     <<Assign("result", Ref("employees"))>>,
     <<Assign("result", HeadOf("employees"))>>,
     <<Assign("result", IntLit)>>,
     <<Assign("tmp", Ref("employees"))>>,
     <<Raise("KeyError")>>,
     <<Raise("SystemExit")>>,
     <<Loop>>,
     <<SyntaxErr>>}

\* the code a learner enters as SQL: nothing, or one query
UserQueries ==
    {<<>>} \cup
    {<<query>> : query \in {Select("employees"), SelectLimit1("employees"),
                            DeleteFrom("employees"), BadSql, SlowQuery,
                            EndlessQuery}}

\* the language of the radio button, Pandas alone for a pandas-only problem,
\* and the code of the box
Entered(lang, user_code) ==
    /\ lang \in (IF problem.pandas_only THEN {"Pandas"} ELSE {"Pandas", "SQL"})
    /\ user_code \in (IF lang = "Pandas" THEN UserPrograms ELSE UserQueries)

\* the learner changes the language or the code for another run
EditCode ==
    /\ pc \in {"shown", "expected", "interrupted"}
    /\ Len(calls) < MaxCalls
    /\ \E lang \in {"Pandas", "SQL"} :
         \E user_code \in UserPrograms \cup UserQueries :
           /\ Entered(lang, user_code)
           /\ language' = lang
           /\ code' = user_code
    /\ pc' = "ready"
    /\ UNCHANGED <<user_df, expected_df, verdict, input_tables, heap, can_alarm,
                   sigalrm, scope, outcome, calls, conn, response, generated,
                   problem, json_dict, imported, verification, session,
                   PageVars>>

\* a page with a current problem on employees, whose expected output is the
\* table or its first row, and a new session
InitRun ==
    /\ pc = "ready"
    /\ CompareIdle
    /\ input_tables = [n \in {"employees"} |-> 1]
    /\ heap = CallerHeap
    /\ can_alarm \in BOOLEAN
    /\ sigalrm = NoAlarm
    /\ scope = NoScope
    /\ outcome = NoOutcome
    /\ calls = <<>>
    /\ conn = NoConn
    /\ response = <<>>
    /\ generated = <<>>
    /\ \E expected \in {Employees, Head1(Employees)}, only \in BOOLEAN :
         problem = [input_tables |-> TablesOf(input_tables, heap),
                    question |-> "Q", expected_output |-> expected,
                    topic |-> "filter_rows", difficulty |-> "easy",
                    pandas_solution |-> <<Assign("result", Ref("employees"))>>,
                    sql_solution |-> IF only THEN NoQuery
                                     ELSE Select("employees"),
                    pandas_only |-> only]
    /\ json_dict = <<>>
    /\ imported = NoProblem
    /\ verification = <<>>
    /\ session = NewSession
    /\ PageIdle
    /\ \E lang \in {"Pandas", "SQL"} :
         \E user_code \in UserPrograms \cup UserQueries :
           /\ Entered(lang, user_code)
           /\ language = lang
           /\ code = user_code

NextRun == RunCode \/ ShowExpected \/ EditCode

SpecRun == InitRun /\ [][NextRun]_vars

-----------------------------------------------------------------------------
(* select_skills_for_difficulty: random.choice, random.sample and           *)
(* random.random are choices among everything they can return.              *)

EASY_SKILLS ==
    <<"filter_columns", "filter_rows", "aggregations", "distinct", "joins",
      "order_by", "limit", "derived_column">>

\* the topics of the page's checkboxes, in the order of the loop that reads
\* them
TOPICS == EASY_SKILLS

Min(x, y) == IF x < y THEN x ELSE y

\* random.choices(population, k=k): k draws with replacement
Choices(population, k) ==
    {[i \in 1..k |-> population[pos[i]]] : pos \in [1..k -> 1..Len(population)]}

\* random.sample(population, k): k elements at distinct positions, in any
\* order
Sample(population, k) ==
    {[i \in 1..k |-> population[pos[i]]] :
         pos \in {f \in [1..k -> 1..Len(population)] :
                      \A i, j \in 1..k : f[i] = f[j] => i = j}}

\* every list select_skills_for_difficulty(difficulty, selected_topics) can
\* return
select_skills_for_difficulty(difficulty, selected_topics) ==
    LET available_skills ==
            IF selected_topics # <<>> THEN selected_topics ELSE EASY_SKILLS
        one == Sample(available_skills, 1)
        some(counts) ==
            UNION {Sample(available_skills, Min(n, Len(available_skills)))
                       : n \in counts}
    IN  CASE difficulty = "easy" -> one
          [] difficulty = "medium" -> some({2, 3})
          [] difficulty = "hard" ->
                 {<<"pivot">>, <<"melt">>}
                 \cup {<<"datatypes">>}
                 \cup {Append(drawn, "cross_join") : drawn \in some({2, 3})}
                 \cup some({3, 4})
          [] OTHER -> one

\* one call of select_skills_for_difficulty
SelectSkills ==
    /\ pc = "ready"
    /\ pc' = "done"
    /\ \E drawn \in select_skills_for_difficulty(selection.difficulty,
                                                 selection.selected_topics) :
         selection' = [selection EXCEPT !.skills = drawn]
    /\ UNCHANGED <<user_df, expected_df, verdict, code, input_tables, heap,
                   can_alarm, sigalrm, scope, outcome, calls, conn, AppVars,
                   uploaded_file, cache, requests>>

\* the topics ticked: any of the checkboxes, read in the order of TOPICS
TopicChoices ==
    {SelectSeq(TOPICS, LAMBDA t : t \in ticked) : ticked \in SUBSET Range(TOPICS)}

\* the difficulties of the page, and one that is none of them
Difficulties == {"easy", "medium", "hard", "expert"}

InitSkills ==
    /\ pc = "ready"
    /\ CompareIdle
    /\ code = <<>>
    /\ input_tables = <<>>
    /\ heap = <<>>
    /\ can_alarm = FALSE
    /\ sigalrm = NoAlarm
    /\ scope = NoScope
    /\ outcome = NoOutcome
    /\ calls = <<>>
    /\ conn = NoConn
    /\ response = <<>>
    /\ generated = <<>>
    /\ problem = NoProblem
    /\ json_dict = <<>>
    /\ imported = NoProblem
    /\ verification = <<>>
    /\ session = <<>>
    /\ language = ""
    /\ uploaded_file = NoFile
    /\ cache = <<>>
    /\ requests = <<>>
    /\ selection \in [difficulty : Difficulties, selected_topics : TopicChoices,
                      skills : {<<>>}]

NextSkills == SelectSkills

SpecSkills == InitSkills /\ [][NextSkills]_vars

-----------------------------------------------------------------------------
(* generate_problem: the API request, made through                          *)
(* _cached_generate_problem (functools.lru_cache) when use_cache is set.    *)

\* @lru_cache(maxsize=32)
CACHE_MAXSIZE == 32

\* the skills in the order of sorted()
SkillOrder ==
    <<"aggregations", "cross_join", "datatypes", "derived_column", "distinct",
      "filter_columns", "filter_rows", "joins", "limit", "melt", "order_by",
      "pivot">>

\* sorted(skills)
SortedSkills(list) == SelectSeq(SkillOrder, LAMBDA sk : sk \in Range(list))

\* the arguments of _cached_generate_problem with the skills sorted
SortedKey(list, level, dataset_topic, use_cte, num_ctes) ==
    [skills_tuple |-> SortedSkills(list), difficulty |-> level,
     dataset_topic |-> dataset_topic, use_cte |-> use_cte,
     num_ctes |-> num_ctes,
     cache_key |->
         <<SortedSkills(list), level, dataset_topic, use_cte, num_ctes>>]

\* the arguments of _cached_generate_problem, which are the key of its
\* cache: tuple(skills) in the order selected, and cache_key, the hash of
\* the sorted skills and the other arguments
CacheKey(list, level, dataset_topic, use_cte, num_ctes) ==
    [skills_tuple |-> list, difficulty |-> level,
     dataset_topic |-> dataset_topic, use_cte |-> use_cte,
     num_ctes |-> num_ctes,
     cache_key |->
         <<SortedSkills(list), level, dataset_topic, use_cte, num_ctes>>]

\* the position of the key in the cache, 0 when it is not there
Cached(entries, key) ==
    IF \E i \in 1..Len(entries) : entries[i].key = key
    THEN CHOOSE i \in 1..Len(entries) : entries[i].key = key
    ELSE 0

\* the cache with the entry at position i moved to the most recent end
Touched(entries, i) ==
    SubSeq(entries, 1, i - 1) \o SubSeq(entries, i + 1, Len(entries))
    \o <<entries[i]>>

\* the cache with a new entry; the least recently used entry goes when the
\* cache is full
Stored(entries, key, text) ==
    (IF Len(entries) >= CACHE_MAXSIZE THEN Tail(entries) ELSE entries)
    \o <<[key |-> key, text |-> text]>>

\* lines 511-537 of generate_problem: the response text comes from the cache
\* or from a request to the API; api_ok says whether a request made now is
\* answered, and the text of the n-th request is n. An exception of the
\* request leaves the cache as it was.
fetch_response(use_cache, key, entries, sent, api_ok) ==
    LET hit == Cached(entries, key)
        request == [key |-> key, cached |-> use_cache]
        text == Len(sent) + 1
    IN  IF use_cache /\ hit # 0
        THEN [raised |-> "none", text |-> entries[hit].text, requested |-> FALSE,
              cache |-> Touched(entries, hit), requests |-> sent]
        ELSE IF ~api_ok
        THEN [raised |-> "Exception", text |-> 0, requested |-> TRUE,
              cache |-> entries, requests |-> Append(sent, request)]
        ELSE [raised |-> "none", text |-> text, requested |-> TRUE,
              cache |-> IF use_cache THEN Stored(entries, key, text) ELSE entries,
              requests |-> Append(sent, request)]

\* the skill lists, dataset topics and CTE settings a call resolves to
ResolvedSkills ==
    {<<"filter_rows">>, <<"filter_rows", "joins">>, <<"joins", "filter_rows">>}

DatasetTopics == {"cruises", "library"}

CteSettings == {<<FALSE, 0>>, <<TRUE, 1>>}

\* one call of generate_problem up to the response text: the skills, the
\* dataset topic and the CTE settings are drawn at random
RequestResponse ==
    /\ pc = "ready"
    /\ Len(calls) < MaxCalls
    /\ \E use_cache \in BOOLEAN, api_ok \in BOOLEAN, list \in ResolvedSkills,
          dataset_topic \in DatasetTopics, cte \in CteSettings :
         \E got \in {fetch_response(use_cache,
                                    CacheKey(list, "medium", dataset_topic,
                                             cte[1], cte[2]),
                                    cache, requests, api_ok)} :
             /\ cache' = got.cache
             /\ requests' = got.requests
             /\ calls' = Append(calls,
                                [use_cache |-> use_cache,
                                 resolved |-> SortedKey(list, "medium",
                                                        dataset_topic,
                                                        cte[1], cte[2]),
                                 skills |-> list,
                                 requested |-> got.requested,
                                 raised |-> got.raised,
                                 text |-> got.text])
    /\ UNCHANGED <<pc, user_df, expected_df, verdict, code, input_tables, heap,
                   can_alarm, sigalrm, scope, outcome, conn, AppVars,
                   uploaded_file, selection>>

InitCache ==
    /\ pc = "ready"
    /\ CompareIdle
    /\ code = <<>>
    /\ input_tables = <<>>
    /\ heap = <<>>
    /\ can_alarm = FALSE
    /\ sigalrm = NoAlarm
    /\ scope = NoScope
    /\ outcome = NoOutcome
    /\ calls = <<>>
    /\ conn = NoConn
    /\ AppIdle

NextCache == RequestResponse

SpecCache == InitCache /\ [][NextCache]_vars

-----------------------------------------------------------------------------
(* The page (app.py).  One action is one run of the script from the widget  *)
(* event that started it to its end: at the last line, at st.rerun(), at an *)
(* exception nothing catches, or never.  problem is current_problem,        *)
(* session the other keys of st.session_state, uploaded_file the file in    *)
(* the uploader, code the text in the code box, and calls the runs so far,  *)
(* each with the state it started from.                                     *)

\* the script runs of one session
MaxRuns == 4

\* the text of an uploaded file: no JSON, or the JSON of a dict
NotJson == [json |-> FALSE, dict |-> [text |-> "{"]]

JsonOf(d) == [json |-> TRUE, dict |-> d]

\* a topic that is a JSON number, which from_json passes on as an int
NumberTopic == "5 (int)"

\* the value is a str
IsStr(v) == v # NumberTopic

\* last_uploaded_file_id = None
NoId == <<>>

\* file_id = f"{uploaded_file.name}_{uploaded_file.size}"
FileId(file) == <<file.name, file.size>>

\* the session state of a new session, lines 116-141
PageSession ==
    NewSession @@
    [user_code |-> <<>>, problem_info_revealed |-> FALSE,
     solutions_revealed |-> FALSE, last_uploaded_file_id |-> NoId]

\* a reset that leaves what was revealed
ClearResultsOnly(sess) ==
    [sess EXCEPT !.result_df = Other("NoneType"),
                 !.error_message = NoError,
                 !.is_correct = "None",
                 !.feedback_message = Feedback("None"),
                 !.show_expected = FALSE,
                 !.user_code = <<>>]

\* lines 252-259 and 357-364: the results, the code and the reveal flags are
\* cleared
ClearResults(sess) ==
    [sess EXCEPT !.result_df = Other("NoneType"),
                 !.error_message = NoError,
                 !.is_correct = "None",
                 !.feedback_message = Feedback("None"),
                 !.show_expected = FALSE,
                 !.user_code = <<>>,
                 !.problem_info_revealed = FALSE,
                 !.solutions_revealed = FALSE]

\* a handler that leaves last_uploaded_file_id as it is
KeepUploader(sess) == sess

\* line 260: st.session_state.last_uploaded_file_id = None
ResetUploader(sess) == [sess EXCEPT !.last_uploaded_file_id = NoId]

\* a handler that stores what generate_problem left, returned or not
current_problem_assigned(prob, g) == g.problem

\* lines 296-297: current_problem is assigned inside the try, after
\* generate_problem and verify_problem_solutions have returned
current_problem_after(prob, g) ==
    IF g.ended = "returned" THEN g.problem ELSE prob

\* lines 341-387, the import section: nothing without a file or with the
\* file already processed; otherwise the file is read, parsed and made the
\* current problem, the results are cleared, the file is marked as processed
\* and the script is run again. An exception clears the mark; the topic is
\* formatted after the problem was stored. readable says whether read()
\* returns the text of the file.
import_section(sess, prob, file, readable) ==
    LET untouched(how) ==
            [session |-> sess, problem |-> prob, ctl |-> "continue",
             file |-> how, exc |-> "none", reset |-> FALSE]
        failed(exc) ==
            [session |-> [sess EXCEPT !.last_uploaded_file_id = NoId],
             problem |-> prob, ctl |-> "continue", file |-> "failed",
             exc |-> exc, reset |-> FALSE]
        loaded(imported_problem) ==
            IF IsStr(imported_problem.topic)
            THEN [session |-> [ClearResults(sess) EXCEPT
                                  !.last_uploaded_file_id = FileId(file)],
                  problem |-> imported_problem, ctl |-> "rerun",
                  file |-> "ok", exc |-> "none", reset |-> TRUE]
            ELSE [session |-> [ClearResults(sess) EXCEPT
                                  !.last_uploaded_file_id = NoId],
                  problem |-> imported_problem, ctl |-> "continue",
                  file |-> "failed", exc |-> "AttributeError", reset |-> TRUE]
    IN  IF file = NoFile THEN untouched("none")
        ELSE IF FileId(file) = sess.last_uploaded_file_id
        THEN untouched("skipped")
        ELSE IF ~readable \/ ~file.content.json THEN failed("JSONDecodeError")
        ELSE IF FromJsonError(file.content.dict) # "none"
        THEN failed("ValueError")
        ELSE loaded(from_json(file.content.dict))

\* lines 390-468: the code box is copied to user_code, the two reveal buttons
\* set their flags, and the revealed topic is formatted
page_body(sess, prob, box, event) ==
    LET pressed ==
            [sess EXCEPT !.user_code = box,
                         !.problem_info_revealed = @ \/ event = "reveal_info",
                         !.solutions_revealed = @ \/ event = "show_solutions"]
    IN  [session |-> pressed,
         ctl |-> IF /\ pressed.problem_info_revealed
                    /\ prob.topic # "multi_skill"
                    /\ ~IsStr(prob.topic)
                 THEN "abort" ELSE "complete"]

\* lines 509-532: the button 'Show Expected Output' is on the page
ExpectedOffered(sess) ==
    /\ sess.error_message = NoError
    /\ sess.result_df.type # "NoneType"
    /\ sess.is_correct = "False"
    /\ ~sess.show_expected

\* the text of the code box once user_code was cleared: the box is drawn
\* with another value, and whether it then shows that value or the text it
\* had depends on how the Streamlit build identifies a widget that has a key
BoxAfter(box, reset, kept) == IF reset /\ ~kept THEN <<>> ELSE box

\* the heap on which the code of the page runs: the tables of the problem
PageHeap(prob) == [CallerHeap EXCEPT ![1] = prob.input_tables["employees"]]

\* the run ends: pc tells how, and calls keeps the event, what became of the
\* generation and of the file, the problem generated, whether the current
\* problem was assigned, and the state the run started from
ScriptEnd(event, gen, made, imp, replaced, sess, prob, ctl) ==
    /\ session' = sess
    /\ problem' = prob
    /\ pc' = CASE ctl = "rerun" -> "rerun"
               [] ctl = "hung" -> "hung"
               [] OTHER -> "idle"
    /\ calls' = Append(calls,
                       [event |-> event, generated |-> gen,
                        new_problem |-> made, file |-> imp,
                        replaced |-> replaced, ended |-> ctl,
                        uploaded |-> FileId(uploaded_file'),
                        before |-> [problem |-> problem, session |-> session]])

\* a run from the import section on, for the events that have no handler
\* below the code box
FromImport(event, gen, imp, box) ==
    IF imp.ctl = "rerun"
    THEN ScriptEnd(event, gen, NoProblem, imp.file, imp.reset, imp.session,
                   imp.problem, "rerun")
    ELSE \E body \in {page_body(imp.session, imp.problem, box, event)} :
             ScriptEnd(event, gen, NoProblem, imp.file, imp.reset,
                       body.session, imp.problem, body.ctl)

\* the variables no run of the page changes
PageFrame ==
    UNCHANGED <<user_df, expected_df, verdict, input_tables, heap, can_alarm,
                sigalrm, scope, outcome, conn, json_dict, imported, language,
                selection, cache, requests>>

\* the responses of the API to 'Generate New Problem': a problem, a pandas
\* solution that raises, one that exits, one that never ends
PageResponses ==
    {[skills |-> <<"filter_rows">>, question |-> "G", topic |-> "filter_rows",
      difficulty |-> "easy", pandas_solution |-> program,
      sql_solution |-> Select("employees")]
         : program \in {<<Assign("result", Ref("employees"))>>,
                        <<Raise("KeyError")>>,
                        <<Raise("SystemExit")>>,
                        <<Loop>>}}

\* 'Generate New Problem', lines 250-305: the results and the mark of the
\* uploader are cleared, a problem is generated and verified and made the
\* current problem, and the script is run again; an Exception is reported
\* and the run goes on with the import section
GenerateNewProblem ==
    /\ pc = "idle"
    /\ uploaded_file' = uploaded_file
    /\ Len(calls) < MaxRuns
    /\ \E resp \in PageResponses, kept \in BOOLEAN :
         \E g \in {generate_problem(resp, input_tables, heap, can_alarm, "never")} :
         \E v \in {IF g.ended = "returned"
                   THEN verify_problem_solutions(g.problem, input_tables, heap,
                                                 can_alarm, "never")
                   ELSE [ended |-> "skipped", ran |-> <<>>]} :
         \E cleared \in {ResetUploader(ClearResults(session))} :
         \E current \in {current_problem_after(problem, g)} :
             /\ response' = resp
             /\ generated' = [ended |-> g.ended, exc |-> g.exc,
                              message |-> g.message, ran |-> g.ran,
                              pandas |-> g.pandas, sql |-> g.sql]
             /\ verification' = v
             /\ code' = BoxAfter(code, TRUE, kept)
             /\ IF g.ended = "hung" \/ v.ended = "hung"
                THEN ScriptEnd("generate", "hung", NoProblem, "unreached",
                               FALSE, cleared, current, "hung")
                ELSE IF g.ended = "raised" /\ g.exc \in BaseOnly
                THEN ScriptEnd("generate", "exit", NoProblem, "unreached",
                               FALSE, cleared, current, "abort")
                ELSE IF g.ended = "returned"
                THEN ScriptEnd("generate", "ok", g.problem, "unreached", TRUE,
                               cleared, current, "rerun")
                ELSE \E imp \in {import_section(cleared, current,
                                                uploaded_file, TRUE)} :
                         FromImport("generate", "failed", imp,
                                    BoxAfter(code, TRUE, kept))
    /\ PageFrame

\* a Problem as it was exported
ExportedProblem ==
    [input_tables |-> [n \in {"employees"} |-> Employees], question |-> "A",
     expected_output |-> Employees, topic |-> "joins", difficulty |-> "hard",
     pandas_solution |-> <<Assign("result", Ref("employees"))>>,
     sql_solution |-> Select("employees"), pandas_only |-> FALSE]

\* the exported dict without its topic
WithoutTopic(d) == [f \in (DOMAIN d) \ {"topic"} |-> d[f]]

\* the files a user uploads: an export, text that is no JSON, an export
\* without topic, an export whose topic is a number
Files ==
    {[name |-> "a.json", size |-> 1, content |-> JsonOf(to_json(ExportedProblem))],
     [name |-> "b.json", size |-> 2, content |-> NotJson],
     [name |-> "c.json", size |-> 3,
      content |-> JsonOf(WithoutTopic(to_json(ExportedProblem)))],
     [name |-> "d.json", size |-> 4,
      content |-> JsonOf([to_json(ExportedProblem) EXCEPT !.topic = NumberTopic])]}

\* the user puts a file into the uploader, or takes the file out
UploadFile ==
    /\ pc = "idle"
    /\ Len(calls) < MaxRuns
    /\ \E file \in (Files \cup {NoFile}) \ {uploaded_file}, kept \in BOOLEAN :
         \E imp \in {import_section(session, problem, file, TRUE)} :
             /\ uploaded_file' = file
             /\ code' = BoxAfter(code, imp.reset, kept)
             /\ FromImport("upload", "none", imp,
                           BoxAfter(code, imp.reset, kept))
    /\ UNCHANGED <<response, generated, verification>>
    /\ PageFrame

\* the run that st.rerun() starts: no widget has changed. The file object
\* of the uploader may be the one the run before has read to its end.
Rerun ==
    /\ pc = "rerun"
    /\ UNCHANGED <<uploaded_file, response, generated, verification>>
    /\ \E readable \in BOOLEAN, kept \in BOOLEAN :
         /\ readable \/ calls[Len(calls)].file \in {"ok", "failed"}
         /\ \E imp \in {import_section(session, problem, uploaded_file,
                                       readable)} :
                /\ code' = BoxAfter(code, imp.reset, kept)
                /\ FromImport("rerun", "none", imp,
                              BoxAfter(code, imp.reset, kept))
    /\ PageFrame

\* 'Reveal Problem Info' or 'Show Reference Solutions' is pressed
Reveal ==
    /\ pc = "idle"
    /\ UNCHANGED <<uploaded_file, response, generated, verification>>
    /\ Len(calls) < MaxRuns
    /\ \E event \in {"reveal_info", "show_solutions"}, kept \in BOOLEAN :
         \E imp \in {import_section(session, problem, uploaded_file, TRUE)} :
             /\ code' = BoxAfter(code, imp.reset, kept)
             /\ FromImport(event, "none", imp, BoxAfter(code, imp.reset, kept))
    /\ PageFrame

\* the code a learner types on the page
PageCode ==
    {<<>>,
     <<Assign("result", Ref("employees"))>>,
     <<Assign("result", HeadOf("employees"))>>}

\* the learner changes the text of the code box
TypeCode ==
    /\ pc = "idle"
    /\ UNCHANGED <<uploaded_file, response, generated, verification>>
    /\ Len(calls) < MaxRuns
    /\ \E typed \in PageCode \ {code}, kept \in BOOLEAN :
         \E imp \in {import_section(session, problem, uploaded_file, TRUE)} :
             /\ code' = BoxAfter(typed, imp.reset, kept)
             /\ FromImport("type", "none", imp,
                           BoxAfter(typed, imp.reset, kept))
    /\ PageFrame

\* 'Run Code' is pressed: lines 471-504 after the import section and the
\* code box
RunCodeClick ==
    /\ pc = "idle"
    /\ UNCHANGED <<uploaded_file, response, generated, verification>>
    /\ Len(calls) < MaxRuns
    /\ \E kept \in BOOLEAN :
         \E imp \in {import_section(session, problem, uploaded_file, TRUE)} :
         \E body \in {page_body(imp.session, imp.problem,
                                BoxAfter(code, imp.reset, kept), "run")} :
             /\ code' = BoxAfter(code, imp.reset, kept)
             /\ IF imp.ctl = "rerun" \/ body.ctl = "abort"
                THEN FromImport("run", "none", imp,
                                BoxAfter(code, imp.reset, kept))
                ELSE \E run \in {run_code(body.session, imp.problem,
                                          body.session.user_code, "Pandas",
                                          input_tables, PageHeap(imp.problem),
                                          can_alarm, "never")} :
                         ScriptEnd("run", "none", NoProblem, imp.file,
                                   imp.reset, run.session, imp.problem,
                                   CASE run.ended = "returned" -> "complete"
                                     [] run.ended = "raised" -> "abort"
                                     [] run.ended = "hung" -> "hung")
    /\ PageFrame

\* 'Show Expected Output' is pressed: the flag is set and the script is run
\* again, when the run still offers the button
ShowExpectedOutput ==
    /\ pc = "idle"
    /\ UNCHANGED <<uploaded_file, response, generated, verification>>
    /\ Len(calls) < MaxRuns
    /\ ExpectedOffered(session)
    /\ \E kept \in BOOLEAN :
         \E imp \in {import_section(session, problem, uploaded_file, TRUE)} :
         \E body \in {page_body(imp.session, imp.problem,
                                BoxAfter(code, imp.reset, kept),
                                "show_expected")} :
             /\ code' = BoxAfter(code, imp.reset, kept)
             /\ IF imp.ctl = "rerun" \/ body.ctl = "abort"
                   \/ ~ExpectedOffered(body.session)
                THEN FromImport("show_expected", "none", imp,
                                BoxAfter(code, imp.reset, kept))
                ELSE ScriptEnd("show_expected", "none", NoProblem, imp.file,
                               imp.reset,
                               [body.session EXCEPT !.show_expected = TRUE],
                               imp.problem, "rerun")
    /\ PageFrame

\* the problem of the first load: the first row of employees
FirstResponse ==
    [skills |-> <<"filter_rows">>, question |-> "Q", topic |-> "filter_rows",
     difficulty |-> "easy",
     pandas_solution |-> <<Assign("result", HeadOf("employees"))>>,
     sql_solution |-> SelectLimit1("employees")]

\* a new session whose first problem was generated; the script runs in a
\* thread of Streamlit, where no alarm can be installed
InitApp ==
    /\ pc = "idle"
    /\ CompareIdle
    /\ code = <<>>
    /\ input_tables = [n \in {"employees"} |-> 1]
    /\ heap = CallerHeap
    /\ can_alarm = FALSE
    /\ sigalrm = NoAlarm
    /\ scope = NoScope
    /\ outcome = NoOutcome
    /\ calls = <<>>
    /\ conn = NoConn
    /\ response = FirstResponse
    /\ generated = <<>>
    /\ problem = generate_problem(FirstResponse, input_tables, heap, FALSE,
                                  "never").problem
    /\ json_dict = <<>>
    /\ imported = NoProblem
    /\ verification = <<>>
    /\ session = PageSession
    /\ language = "Pandas"
    /\ PageIdle

NextApp ==
    \/ GenerateNewProblem
    \/ UploadFile
    \/ Rerun
    \/ Reveal
    \/ TypeCode
    \/ RunCodeClick
    \/ ShowExpectedOutput

SpecApp == InitApp /\ [][NextApp]_vars

-----------------------------------------------------------------------------
(* Properties of compare_dataframes. *)

Returned == pc = "done"

Kind == verdict.feedback.kind

NRows(df) == Len(df.index)

NCols(df) == Len(df.columns)

ShapesDiffer == NRows(user_df) # NRows(expected_df) \/ NCols(user_df) # NCols(expected_df)

NameSet(df) == {df.columns[c] : c \in 1..NCols(df)}

ValueKinds ==
    {"Correct!", "Data type mismatch", "Values don't match in column(s)",
     "Values don't match", "Output doesn't match expected result"}

\* C1: the checks run in the order type guard, shape, column names, cell
\* values, and the verdict is that of the first one that fails: a value that
\* is no DataFrame gets "Expected a DataFrame, but got <type>"; a DataFrame of
\* another shape gets the shape verdict whatever its column names; a DataFrame
\* of the same shape with other column names gets a column verdict; and only
\* a DataFrame of the same shape and names gets a verdict of the value check.
C1_FirstFailingCheckWins ==
    Returned =>
        IF user_df.type # "DataFrame"
        THEN ~verdict.is_correct /\ Kind = "Expected a DataFrame, but got"
             /\ verdict.feedback.got = user_df.type
        ELSE IF ShapesDiffer
        THEN ~verdict.is_correct /\ Kind = "Shape mismatch"
        ELSE IF user_df.columns # expected_df.columns
        THEN ~verdict.is_correct
             /\ Kind \in {"Column mismatch", "Column order mismatch"}
        ELSE Kind \in ValueKinds

\* two tables that differ in shape and in column names got the shape verdict
C1_Witness ==
    /\ Returned
    /\ user_df.type = "DataFrame"
    /\ ShapesDiffer
    /\ NameSet(user_df) # NameSet(expected_df)
    /\ NCols(user_df) = NCols(expected_df)
    /\ Kind = "Shape mismatch"

\* C2: for two tables, the verdict is the shape mismatch if and only if their
\* (row count, column count) differ, and it then shows both shapes.
C2_ShapeMismatchIffShapesDiffer ==
    (Returned /\ user_df.type = "DataFrame") =>
        /\ (Kind = "Shape mismatch") <=> ShapesDiffer
        /\ Kind = "Shape mismatch" =>
               verdict.feedback.shapes =
                   << <<NRows(user_df), NCols(user_df)>>,
                      <<NRows(expected_df), NCols(expected_df)>> >>

\* two tables with the same rows and names in all but one more column
C2_Witness ==
    /\ Returned
    /\ user_df.type = "DataFrame"
    /\ NRows(user_df) = NRows(expected_df)
    /\ NCols(user_df) = NCols(expected_df) + 1
    /\ NameSet(expected_df) \subseteq NameSet(user_df)
    /\ Kind = "Shape mismatch"

\* the rank of a column name in Python's order of str: "B" < "Dtype" < "a" < "b"
NameRank(name) ==
    CASE name = <<"B">> -> 1
      [] name = <<"D","t","y","p","e">> -> 2
      [] name = <<"a">> -> 3
      [] name = <<"b">> -> 4

\* the sequence lists exactly the names of the set, in ascending order
ListsSorted(seq, names) ==
    /\ Len(seq) = Cardinality(names)
    /\ {seq[i] : i \in 1..Len(seq)} = names
    /\ \A i \in 1..(Len(seq) - 1) : NameRank(seq[i]) < NameRank(seq[i + 1])

\* C3: for two tables of one shape, differing name sets give the column
\* mismatch that lists, each sorted, the expected names the submission lacks
\* and the submitted names the expected table lacks; equal sets in another
\* sequence give the column order mismatch showing both sequences; and the
\* submission is never Correct in either case.
C3_ColumnVerdicts ==
    (Returned /\ user_df.type = "DataFrame" /\ ~ShapesDiffer) =>
        /\ NameSet(user_df) # NameSet(expected_df) =>
               /\ ~verdict.is_correct
               /\ Kind = "Column mismatch"
               /\ Len(verdict.feedback.parts) = 2
               /\ verdict.feedback.parts[1].label = "Missing columns"
               /\ ListsSorted(verdict.feedback.parts[1].cols,
                              NameSet(expected_df) \ NameSet(user_df))
               /\ verdict.feedback.parts[2].label = "Extra columns"
               /\ ListsSorted(verdict.feedback.parts[2].cols,
                              NameSet(user_df) \ NameSet(expected_df))
        /\ (/\ NameSet(user_df) = NameSet(expected_df)
            /\ user_df.columns # expected_df.columns) =>
               /\ ~verdict.is_correct
               /\ Kind = "Column order mismatch"
               /\ verdict.feedback.columns = <<user_df.columns, expected_df.columns>>

\* two missing and two extra names were listed
C3_Witness ==
    /\ Returned
    /\ Kind = "Column mismatch"
    /\ Len(verdict.feedback.parts[1].cols) = 2
    /\ Len(verdict.feedback.parts[2].cols) = 2

\* C4: a table compared with itself is Correct.
C4_SelfComparisonCorrect ==
    (Returned /\ user_df = expected_df) =>
        verdict.is_correct /\ Kind = "Correct!"

\* a table of two rows with a missing value was compared with itself
C4_Witness ==
    /\ Returned
    /\ user_df = expected_df
    /\ NRows(user_df) = 2
    /\ \E c \in 1..NCols(user_df) : user_df.data[c][2].k = "nan"
    /\ verdict.is_correct

\* the cells two tables hold in row i
RowOf(df, i) == [c \in 1..NCols(df) |-> df.data[c][i]]

\* two cells are equal for the value check: the same text, both missing, or
\* numbers within the tolerance
CellsAgree(a, b) ==
    \/ a.k = "str" /\ b.k = "str" /\ a.s = b.s
    \/ a.k = "nan" /\ b.k = "nan"
    \/ /\ a.k = "num" /\ b.k = "num"
       /\ \/ Abs(a.n - b.n) <= 1
          \/ Abs(a.n - b.n) <= (IF a.n < b.n THEN b.n ELSE a.n) \div RTOL_INV

RowsAgree(i) ==
    \A c \in 1..NCols(user_df) : CellsAgree(user_df.data[c][i], expected_df.data[c][i])

\* the submission holds the rows of the expected table in some order
SameRowMultiset ==
    \E f \in [1..NRows(user_df) -> 1..NRows(user_df)] :
        /\ \A i, j \in 1..NRows(user_df) : f[i] = f[j] => i = j
        /\ \A i \in 1..NRows(user_df) : RowOf(user_df, i) = RowOf(expected_df, f[i])

ValueMismatchKinds == {"Values don't match in column(s)", "Values don't match"}

\* C5: rows are compared by position: two tables with the same columns and
\* the same row sequence are Correct whatever their row labels, and two
\* tables with the same columns and the same rows in another order, differing
\* at some position, are Incorrect with a value mismatch.
C5_RowsComparedByPosition ==
    Returned =>
        /\ (user_df.data = expected_df.data /\ user_df.dtypes = expected_df.dtypes)
               => verdict.is_correct
        /\ (SameRowMultiset /\ \E i \in 1..NRows(user_df) : ~RowsAgree(i))
               => ~verdict.is_correct /\ Kind \in ValueMismatchKinds

\* the claim's formula of equality: |a-b| <= 1e-8 + 1e-5 * |b|
ClaimedEqual(a, b) == Abs(a.n - b.n) - 1 <= Abs(b.n) \div RTOL_INV

\* C6 as stated: a one-column numeric submission is Correct exactly when every
\* cell a and the expected cell b satisfy |a-b| <= 1e-8 + 1e-5 * |b|.
C6_EqualByClaimedFormula ==
    Returned =>
        (verdict.is_correct <=>
            \A i \in 1..NRows(user_df) :
                ClaimedEqual(user_df.data[1][i], expected_df.data[1][i]))

\* C6: int64 and float64 cells compare by their numbers alone, and a cell a
\* equals the expected cell b exactly when
\* |a-b| <= max(1e-5 * max(|a|, |b|), 1e-8); a submission with a cell outside
\* it is Incorrect with the value mismatch naming the column.
C6_EqualWithinIsCloseTolerance ==
    Returned =>
        /\ verdict.is_correct <=> \A i \in 1..NRows(user_df) : RowsAgree(i)
        /\ verdict.is_correct => Kind = "Correct!"
        /\ ~verdict.is_correct =>
               /\ Kind = "Values don't match in column(s)"
               /\ verdict.feedback.columns = user_df.columns

\* 0.00450005 against 0.0045: within 1e-8 + 1e-5 * |b|, and not Correct
C6_Witness ==
    /\ Returned
    /\ NRows(user_df) = 1
    /\ user_df.data[1][1] = Num((9 * RTOL_INV) \div 2 + 5)
    /\ expected_df.data[1][1] = Num((9 * RTOL_INV) \div 2)
    /\ ClaimedEqual(user_df.data[1][1], expected_df.data[1][1])
    /\ ~verdict.is_correct

\* the columns in which some row differs beyond the tolerance
ColumnsBeyondTolerance ==
    {c \in 1..NCols(user_df) :
         \E i \in 1..NRows(user_df) :
             ~CellsAgree(user_df.data[c][i], expected_df.data[c][i])}

\* C7: the value mismatch names every column whose values are not all equal
\* after the tolerant coercion, and only those columns.
C7_NamesExactlyTheDifferingColumns ==
    (Returned /\ Kind = "Values don't match in column(s)") =>
        {verdict.feedback.columns[j] : j \in 1..Len(verdict.feedback.columns)}
            = {user_df.columns[c] : c \in ColumnsBeyondTolerance}

\* numbers, of either dtype, against text
ValueKindOf(dtype) == IF dtype = "object" THEN "text" ELSE "numeric"

KindsCompatible ==
    \A c \in 1..NCols(user_df) :
        ValueKindOf(user_df.dtypes[c]) = ValueKindOf(expected_df.dtypes[c])

\* C8: a discrepancy found by the value check is reported as a data type
\* mismatch only when some column's value kinds differ, numbers against text;
\* a discrepancy between columns of compatible kinds is a value mismatch.
C8_TypeMismatchOnlyForDifferingKinds ==
    Returned =>
        /\ Kind = "Data type mismatch" => ~KindsCompatible
        /\ (~verdict.is_correct /\ KindsCompatible) => Kind \in ValueMismatchKinds

\* C9: a call changes neither operand: columns, rows, row labels and dtypes
\* of the submitted and of the expected table are after it what they were.
C9_OperandsUnchanged ==
    [][user_df' = user_df /\ expected_df' = expected_df]_vars

\* a submission with the row labels 1, 3 went through the value check
C9_Witness ==
    /\ Returned
    /\ user_df.type = "DataFrame"
    /\ user_df.index = <<1, 3>>
    /\ verdict.is_correct

-----------------------------------------------------------------------------
(* Properties of execute_pandas. *)

\* the program ran to its end: no exception, no timeout, no endless loop
RanToCompletion == pc = "done" /\ scope.status = "ok"

ResultBound == "result" \in DOMAIN scope.ns

ResultObject == heap[scope.ns["result"]]

\* C10: when the program ran to its end, the call returns (table, None)
\* exactly when the namespace binds result to a DataFrame, and the table is
\* that object; without a binding it returns (None, message) naming the
\* variable result; with a binding to anything else it returns
\* (None, message) naming the type of the object bound.
C10_ResultContract ==
    RanToCompletion =>
        /\ outcome.raised = "none"
        /\ (outcome.result # None) <=>
               (ResultBound /\ ResultObject.type = "DataFrame")
        /\ outcome.result # None =>
               outcome.result = scope.ns["result"] /\ outcome.error = NoError
        /\ ~ResultBound =>
               /\ outcome.error.kind =
                      "Error: Your code must assign the output to a variable named"
               /\ outcome.error.detail = "result"
        /\ (ResultBound /\ ResultObject.type # "DataFrame") =>
               /\ outcome.error.kind =
                      "Error: Expected result to be a DataFrame, but got"
               /\ outcome.error.detail = ResultObject.type

\* result was bound to a Series and the message names Series
C10_Witness ==
    /\ RanToCompletion
    /\ ResultBound
    /\ ResultObject.type = "Series"
    /\ outcome.result = None
    /\ outcome.error.detail = "Series"

\* C11: a call of execute_pandas never raises: whatever the program does,
\* the call returns a pair of which exactly one of result and error is None.
C11_FailuresReturnedAsData ==
    pc = "done" =>
        /\ outcome.raised = "none"
        /\ (outcome.result = None) # (outcome.error = NoError)

\* the program's first statement is an endless loop, and the program compiles
LoopFirst ==
    /\ Len(code) >= 1
    /\ code[1] = Loop
    /\ \A i \in 1..Len(code) : code[i] # SyntaxErr

\* the call returned the timeout failure naming the limit, and no table
TimedOut ==
    /\ pc = "done"
    /\ outcome.raised = "none"
    /\ outcome.result = None
    /\ outcome.error.kind = "Timeout Error"
    /\ outcome.error.limit = EXECUTION_TIMEOUT

\* the calls of test_pandas_timeout: the program starts with the endless loop
InitLoop == InitExec /\ LoopFirst

\* a call that can take its step takes it
SpecExecFair == InitLoop /\ [][NextExec]_vars /\ WF_vars(NextExec)

\* C12: a call whose program starts with an endless loop eventually returns
\* the timeout failure that names the limit; it does not hang and it returns
\* no table.
C12_TimeoutFires == (pc = "ready" /\ LoopFirst) ~> TimedOut

\* the tables of the caller's input_tables are what they were before any call
CallerTablesIntact ==
    \A n \in DOMAIN input_tables :
        heap[input_tables[n]] = CallerHeap[input_tables[n]]

\* C13: the caller's input tables are never changed by a call, and two calls
\* with the same code and the same input tables return the same outcome,
\* whatever calls were made between them.
C13_CallsIsolated ==
    /\ CallerTablesIntact
    /\ \A i, j \in 1..Len(calls) :
           calls[i].code = calls[j].code => calls[i].outcome = calls[j].outcome
    /\ \A i \in 1..Len(calls) :
           (pc = "done" /\ calls[i].code = code) => calls[i].outcome = OutcomeView

-----------------------------------------------------------------------------
(* Properties of execute_sql. *)

SqlReturned == pc = "done" /\ scope.status = "sql"

\* C14: when a call of execute_sql that opened a connection returns, the
\* connection is closed, on every path: a result, an exception while a table
\* is loaded or the query is read, a timeout at any moment.  A connection
\* held in conn is closed by conn.close(); one the timeout struck before it
\* was assigned is closed by its deallocator.
C14_ConnectionReleased ==
    (SqlReturned /\ conn.state # "none") =>
        /\ conn.state \in {"closed", "finalized"}
        /\ conn.bound => conn.state = "closed"

\* the timeout struck with the connection held in conn, which was closed
C14_Witness ==
    /\ SqlReturned
    /\ conn.bound
    /\ conn.state = "closed"
    /\ outcome.error.kind = "Timeout Error"

\* the database holds exactly the input tables, under their names, with
\* their columns, dtypes and rows
HoldsExactlyTheInputs(db) ==
    /\ DOMAIN db = DOMAIN input_tables
    /\ \A n \in DOMAIN input_tables :
           /\ db[n].columns = heap[input_tables[n]].columns
           /\ db[n].dtypes = heap[input_tables[n]].dtypes
           /\ db[n].data = heap[input_tables[n]].data

SqlTablesIntact ==
    \A n \in DOMAIN input_tables : heap[input_tables[n]] = SqlHeap[input_tables[n]]

IsTimeout(view) == view.error.kind = "Timeout Error"

\* C15: the query of a call runs against a database that holds exactly the
\* tables of that call's input_tables; a query returns what the same query
\* returned in any earlier call that did not time out, whatever the queries
\* between them created, dropped or deleted; and the caller's tables are
\* never changed.
C15_FreshDatabasePerCall ==
    /\ SqlTablesIntact
    /\ (SqlReturned /\ (outcome.result # None \/ conn.loaded # <<>>)) =>
           HoldsExactlyTheInputs(conn.loaded)
    /\ \A i, j \in 1..Len(calls) :
           (/\ calls[i].code = calls[j].code
            /\ ~IsTimeout(calls[i].outcome)
            /\ ~IsTimeout(calls[j].outcome)) =>
               calls[i].outcome = calls[j].outcome
    /\ \A i \in 1..Len(calls) :
           (/\ SqlReturned
            /\ calls[i].code = code
            /\ ~IsTimeout(calls[i].outcome)
            /\ ~IsTimeout(OutcomeView)) =>
               calls[i].outcome = OutcomeView

\* after a call that created the table made, SELECT * FROM made failed
C15_Witness ==
    /\ SqlReturned
    /\ \E i \in 1..Len(calls) :
           /\ calls[i].code = CreateMadeAs("employees")
           /\ calls[i].outcome.error.detail = "TypeError"
    /\ code = Select("made")
    /\ outcome.error.detail = "DatabaseError"

-----------------------------------------------------------------------------
(* Properties of generate_problem and verify_problem_solutions. *)

\* generate_problem returned a Problem
Accepted == pc \in {"done", "verified"} /\ generated.ended = "returned"

\* two cells are equal for the value check
CellsMatch(a, b) ==
    \/ a.k = "str" /\ b.k = "str" /\ a.s = b.s
    \/ a.k = "nan" /\ b.k = "nan"
    \/ /\ a.k = "num" /\ b.k = "num"
       /\ \/ Abs(a.n - b.n) <= 1
          \/ Abs(a.n - b.n) <= (IF a.n < b.n THEN b.n ELSE a.n) \div RTOL_INV

\* two tables have the same columns in the same order and the same rows in
\* the same order
SameTable(a, b) ==
    /\ a.type = "DataFrame" /\ b.type = "DataFrame"
    /\ a.columns = b.columns
    /\ Len(a.index) = Len(b.index)
    /\ \A c \in 1..Len(a.columns) : \A i \in 1..Len(a.index) :
           CellsMatch(a.data[c][i], b.data[c][i])

HasRowsAndColumns(df) ==
    df.type = "DataFrame" /\ Len(df.index) >= 1 /\ Len(df.columns) >= 1

\* C16: a Problem that is not pandas-only is returned only when both
\* solutions ran without error, both results have rows and columns, and the
\* two results have the same columns in the same order and the same rows in
\* the same order; its expected_output is the pandas result.
C16_AcceptedOnlyWhenSolutionsAgree ==
    (Accepted /\ ~problem.pandas_only) =>
        /\ generated.ran = <<"pandas", "sql", "compare">>
        /\ generated.pandas.error = NoError /\ generated.pandas.raised = "none"
        /\ generated.sql.error = NoError /\ generated.sql.raised = "none"
        /\ HasRowsAndColumns(generated.pandas.result)
        /\ HasRowsAndColumns(generated.sql.result)
        /\ SameTable(generated.pandas.result, generated.sql.result)
        /\ problem.expected_output = generated.pandas.result

\* the rows in reverse order by both solutions: accepted, though the row
\* labels of the two results differ
C16_Witness ==
    /\ Accepted
    /\ ~problem.pandas_only
    /\ response.pandas_solution = <<Assign("result", ReversedOf("employees"))>>
    /\ response.sql_solution = SelectDesc("employees")
    /\ generated.pandas.result.index # generated.sql.result.index

\* the message of the first stage that failed, from what the backends did
FirstFailingStage ==
    IF generated.pandas.error # NoError \/ generated.pandas.raised # "none"
    THEN "Claude's pandas solution failed to execute"
    ELSE IF ~HasRowsAndColumns(generated.pandas.result)
    THEN "Claude's pandas solution produced no output"
    ELSE IF generated.sql.error # NoError \/ generated.sql.raised # "none"
    THEN "Claude's SQL solution failed to execute"
    ELSE IF ~HasRowsAndColumns(generated.sql.result)
    THEN "Claude's SQL solution produced no output"
    ELSE "Claude's pandas and SQL solutions produce different results"

\* C17: when the solutions of a response were run and the response was not
\* accepted, generate_problem raises ValueError, and the message names the
\* first stage that failed: pandas execution, pandas output, SQL execution,
\* SQL output, comparison.
C17_RejectionRaisesValueError ==
    (pc = "done" /\ generated.ran # <<>> /\ generated.ended # "returned") =>
        /\ generated.exc = "ValueError"
        /\ generated.message = FirstFailingStage
        /\ problem = NoProblem

\* C19: a Problem is pandas-only exactly when the skills include pivot or
\* melt; for such skills no SQL solution is run or compared, the Problem has
\* no sql_solution and the pandas result as expected_output, and
\* verify_problem_solutions reports sql_valid with the feedback N/A and runs
\* no SQL; any other Problem has a sql_solution.
C19_PandasOnlyRule ==
    LET pivot_or_melt ==
            \E i \in 1..Len(response.skills) :
                response.skills[i] = "pivot" \/ response.skills[i] = "melt"
    IN  /\ (pc # "ready" /\ pivot_or_melt) =>
               \A i \in 1..Len(generated.ran) :
                   generated.ran[i] \notin {"sql", "compare"}
        /\ Accepted =>
               /\ problem.pandas_only <=> pivot_or_melt
               /\ problem.pandas_only =>
                      /\ problem.sql_solution = NoQuery
                      /\ problem.expected_output = generated.pandas.result
               /\ ~problem.pandas_only => problem.sql_solution # NoQuery
        /\ (pc = "verified" /\ problem.pandas_only) =>
               /\ verification.sql_valid
               /\ verification.sql_feedback = "N/A (pandas-only problem)"
               /\ \A i \in 1..Len(verification.ran) : verification.ran[i] # "sql"

\* a melt problem whose response carried a SQL solution was accepted and
\* verified without SQL
C19_Witness ==
    /\ pc = "verified"
    /\ response.skills = <<"filter_rows", "melt">>
    /\ response.sql_solution = BadSql
    /\ problem.pandas_only
    /\ verification.ran = <<"pandas">>
    /\ verification.sql_valid

-----------------------------------------------------------------------------
(* Properties of Problem.to_json and Problem.from_json. *)

\* two tables have the same column sequence and, cell by cell, the same rows
\* in the same order
SameColumnsAndRows(a, b) ==
    /\ a.type = "DataFrame" /\ b.type = "DataFrame"
    /\ a.columns = b.columns
    /\ Len(a.index) = Len(b.index)
    /\ a.data = b.data

\* C18: Problem.from_json(P.to_json()) has the question, topic, difficulty,
\* solutions and pandas_only flag of P, the same set of input table names,
\* and each input table and the expected output with the column sequence,
\* the rows in their order and the values of the original.
C18_RoundTrip ==
    pc = "imported" =>
        /\ imported.question = problem.question
        /\ imported.topic = problem.topic
        /\ imported.difficulty = problem.difficulty
        /\ imported.pandas_solution = problem.pandas_solution
        /\ imported.sql_solution = problem.sql_solution
        /\ imported.pandas_only = problem.pandas_only
        /\ DOMAIN imported.input_tables = DOMAIN problem.input_tables
        /\ \A name \in DOMAIN problem.input_tables :
               SameColumnsAndRows(imported.input_tables[name],
                                  problem.input_tables[name])
        /\ SameColumnsAndRows(imported.expected_output, problem.expected_output)

\* a Problem of two input tables came back whose expected output has two
\* columns, a missing value and row labels that the file does not keep
C18_Witness ==
    /\ pc = "imported"
    /\ DOMAIN problem.input_tables = {"employees", "result"}
    /\ Len(problem.expected_output.columns) = 2
    /\ problem.expected_output.index = <<1, 3>>
    /\ imported.expected_output.index = <<0, 1>>
    /\ \E c \in 1..2 : problem.expected_output.data[c][2] = NaN

\* a Problem whose table has no rows came back with its columns
C18_WitnessNoRows ==
    /\ pc = "imported"
    /\ problem.expected_output.index = <<>>
    /\ imported.expected_output.columns = problem.expected_output.columns
    /\ Len(imported.expected_output.columns) = 2

-----------------------------------------------------------------------------
(* Properties of the 'Run Code' button. *)

\* the handler of the button has been left
AfterRunCode == pc \in {"shown", "interrupted"}

\* the one backend call of the last run
LastCall == session.ran[1]

\* C20: after every 'Run Code' show_expected is False; for blank code no
\* backend was called, error_message is 'Please enter some code first!' and
\* result_df, is_correct and feedback_message are None; otherwise the backend
\* of the selected language was called once on the input tables of the
\* current problem, and is_correct and feedback_message are the comparison
\* with its expected_output when the call returned a table and no error, and
\* None when it did not.
C20_RunCodeSessionState ==
    AfterRunCode =>
        /\ ~session.show_expected
        /\ IF IsBlank(code)
           THEN /\ session.ran = <<>>
                /\ session.error_message = EnterCodeFirst
                /\ session.result_df = Other("NoneType")
                /\ session.is_correct = "None"
                /\ session.feedback_message = Feedback("None")
           ELSE /\ Len(session.ran) = 1
                /\ LastCall.backend = language
                /\ LastCall.tables = problem.input_tables
                /\ IF /\ LastCall.raised = "none"
                      /\ LastCall.error = NoError
                      /\ LastCall.result.type = "DataFrame"
                   THEN LET v == compare_dataframes(LastCall.result,
                                                    problem.expected_output)
                        IN  /\ session.is_correct =
                                   (IF v.is_correct THEN "True" ELSE "False")
                            /\ session.feedback_message = v.feedback
                   ELSE /\ session.is_correct = "None"
                        /\ session.feedback_message = Feedback("None")

\* the same for the runs whose backend call came back
C20_WhenBackendReturns == pc = "shown" => C20_RunCodeSessionState

-----------------------------------------------------------------------------
(* Properties of select_skills_for_difficulty. *)

\* the skills the call could draw from
Available ==
    IF selection.selected_topics # <<>> THEN selection.selected_topics
    ELSE EASY_SKILLS

\* no skill of the list is repeated, and each is one of those given
DrawnFrom(list, population) ==
    /\ \A i, j \in 1..Len(list) : list[i] = list[j] => i = j
    /\ \A i \in 1..Len(list) : list[i] \in Range(population)

Lengths(counts) == {Min(n, Len(Available)) : n \in counts}

-----------------------------------------------------------------------------
(* Properties of the cached API request. *)

\* C25: of the calls with use_cache that resolve to the same set of skills,
\* difficulty, dataset topic and CTE settings, in whatever order the skills
\* were selected, only the first issues an API request and, once a request
\* was answered, the later ones return the text cached by it; a call
\* without use_cache always issues a request.
C25_OneRequestPerResolution ==
    /\ \A i, j \in 1..Len(calls) :
           (/\ i < j
            /\ calls[i].use_cache /\ calls[j].use_cache
            /\ calls[i].raised = "none"
            /\ calls[i].resolved = calls[j].resolved) =>
               /\ ~calls[j].requested
               /\ calls[j].text = calls[i].text
    /\ \A i \in 1..Len(calls) : ~calls[i].use_cache => calls[i].requested

\* the same holds of the calls that select the skills in the same order
C25_SameOrderAnswered ==
    /\ \A i, j \in 1..Len(calls) :
           (/\ i < j
            /\ calls[i].use_cache /\ calls[j].use_cache
            /\ calls[i].resolved = calls[j].resolved
            /\ calls[i].raised = "none"
            /\ calls[i].skills = calls[j].skills) =>
               /\ ~calls[j].requested
               /\ calls[j].text = calls[i].text
    /\ \A i \in 1..Len(calls) : ~calls[i].use_cache => calls[i].requested

-----------------------------------------------------------------------------
(* Properties of time_limit. *)

\* C28: an exception raised by the body of `with time_limit(...)`, other
\* than the timeout, leaves the context manager as that same exception,
\* whether the alarm could be installed or not: execute_pandas reports the
\* body's own exception in its traceback, or lets it pass when it is no
\* Exception.
C28_BodyExceptionPasses ==
    (/\ pc = "done"
     /\ scope.status = "raised"
     /\ scope.exc # "TimeoutError") =>
        IF scope.exc \in BaseOnly
        THEN outcome.raised = scope.exc
        ELSE outcome.error = ErrorMsg("Traceback", scope.exc)

\* the same holds when the alarm could not be installed
C28_PassesWithoutAlarm ==
    (/\ pc = "done"
     /\ ~can_alarm
     /\ scope.status = "raised"
     /\ scope.exc # "TimeoutError") =>
        IF scope.exc \in BaseOnly
        THEN outcome.raised = scope.exc
        ELSE outcome.error = ErrorMsg("Traceback", scope.exc)


C30_PandasCalls == pc \in {"done", "ready"} => sigalrm.pending = 0

-----------------------------------------------------------------------------
(* Properties of verify_problem_solutions. *)

NoTimeoutInVerification ==
    /\ verification.pandas_error.kind # "Timeout Error"
    /\ verification.sql_error.kind # "Timeout Error"

-----------------------------------------------------------------------------
(* Properties of the page. *)

\* the run that ended last
LastRun == calls[Len(calls)]

\* the run pressed 'Generate New Problem' and generate_problem did not
\* return a Problem: it raised or exited
GenerationFailed(run) ==
    run.event = "generate" /\ run.generated \in {"failed", "exit"}

\* C21: when generation raises during 'Generate New Problem', the current
\* problem after the run is the problem that was current before it.
C21_FailedGenerationKeepsProblem ==
    (Len(calls) >= 1 /\ GenerationFailed(LastRun)) =>
        problem = LastRun.before.problem

\* generation has failed with an imported file still in the uploader, whose
\* problem was the current one
C21_Witness ==
    /\ Len(calls) >= 1
    /\ GenerationFailed(LastRun)
    /\ LastRun.file = "ok"
    /\ LastRun.before.problem.question = "A"

\* the runs since the problem was last assigned include one started by the
\* event given
RequestedSinceLoad(event) ==
    \E i \in 1..Len(calls) :
        /\ calls[i].event = event
        /\ \A j \in (i + 1)..Len(calls) : ~calls[j].replaced

\* the run replaced the current problem by a generated or an imported one
\* and asked for the rerun
Replaced(run) ==
    /\ run.ended = "rerun"
    /\ run.generated = "ok" \/ run.file = "ok"

C23_FileProcessedOnce ==
    \A i \in 2..Len(calls) :
        /\ (/\ calls[i - 1].file \in {"ok", "skipped"}
            /\ calls[i].uploaded = calls[i - 1].uploaded
            /\ calls[i].event # "generate") =>
               calls[i].file = "skipped"
        /\ (/\ calls[i - 1].event = "generate"
            /\ calls[i - 1].generated = "ok"
            /\ calls[i].uploaded # FileId(NoFile)) =>
               calls[i].file \in {"ok", "failed"}

\* a file was imported, skipped by the next run, and imported again by the
\* run after a successful 'Generate New Problem'
C23_Witness ==
    /\ Len(calls) >= 4
    /\ calls[1].file = "ok"
    /\ calls[2].file = "skipped"
    /\ calls[3].generated = "ok"
    /\ calls[4].file = "ok"

\* C26: once the rerun after a successful 'Generate New Problem' has
\* completed, the generated problem is the current problem until the next
\* 'Generate New Problem' or upload, whatever is in the uploader.
C26_GeneratedProblemStaysCurrent ==
    \A i \in 1..Len(calls) :
        (/\ calls[i].event = "generate"
         /\ calls[i].generated = "ok"
         /\ i < Len(calls)
         /\ pc = "idle"
         /\ \A j \in (i + 1)..Len(calls) :
                calls[j].event \notin {"generate", "upload"}) =>
            problem = calls[i].new_problem

\* the same of the sessions without a file in the uploader
C26_StaysCurrentWithoutFile ==
    \A i \in 1..Len(calls) :
        (/\ calls[i].event = "generate"
         /\ calls[i].generated = "ok"
         /\ i < Len(calls)
         /\ pc = "idle"
         /\ uploaded_file = NoFile
         /\ \A j \in (i + 1)..Len(calls) :
                calls[j].event \notin {"generate", "upload"}) =>
            problem = calls[i].new_problem

\* C29: an upload whose import fails leaves the current problem and the
\* session state as they were, but for last_uploaded_file_id, which is None.
C29_FailedImportLeavesState ==
    (/\ Len(calls) >= 1
     /\ LastRun.event = "upload"
     /\ LastRun.file = "failed") =>
        /\ problem = LastRun.before.problem
        /\ session = [LastRun.before.session EXCEPT
                         !.last_uploaded_file_id = NoId]

\* the same of the imports that fail before the imported problem is stored,
\* on a page whose code box shows user_code
C29_FailsBeforeProblemStored ==
    (/\ Len(calls) >= 1
     /\ LastRun.event = "upload"
     /\ LastRun.file = "failed"
     /\ ~LastRun.replaced
     /\ LastRun.before.session.user_code = code) =>
        /\ problem = LastRun.before.problem
        /\ session = [LastRun.before.session EXCEPT
                         !.last_uploaded_file_id = NoId]

====
